---- MODULE Spec2Model ----
(***************************************************************************)
(* A model of nextgen-kernels-api: the kernel message cache                *)
(* (services/kernels/cache.py) and the kernel client mixin                 *)
(* (services/kernels/client.py).                                           *)
(***************************************************************************)
EXTENDS Integers, Sequences, FiniteSets, TLC

(***************************************************************************)
(* Bounds of the model.                                                    *)
(***************************************************************************)
\* number of distinct message ids the callers use
NumMsgIds == 3
\* KernelMessageCache.maxsize as configured for the model (a bound, like
\* the small_cache fixture of the tests)
maxsize == 2

\* JupyterServerKernelClientMixin._max_queue_size as configured for the model
max_queue_size == 2
\* the logical clock stops here
MaxTime == 2
\* the timeout of wait_for_connection_ready (30 s) and connection_test_timeout
\* (120 s), in ticks of the logical clock: the wait is the shorter one
WaitTimeout == 1
TestTimeout == 2
\* connection_test_retry_interval, in ticks
RetryInterval == 1
\* max_attempts of the heartbeat loop of connect()
max_attempts == 1
\* messages the kernel puts on each monitored channel
MaxArrivals == 2
\* bridges the kernel managers make for the registry
MaxClients == 2
\* polls of the lifecycle state before _wait_for_kernel_started gives up
MaxPolls == 2
\* calls of wrapped coroutine methods that are awaited at a time
MaxAwaited == 1

MsgNames == <<"m1", "m2", "m3", "m4", "m5">>
MsgIds == {MsgNames[i] : i \in 1..NumMsgIds}
CellIds == {"c1"}

\* a key that a dict does not hold ("cell_id" not in value)
Absent == "absent"
\* Python's None
None == "None"
\* "no message id" in the bookkeeping of the last operation
NoId == "-"

\* the dict a get() miss stands for (get returns None)
NoEntry == [msg_id |-> Absent, channel |-> Absent, cell_id |-> Absent]

CacheChannels == {"shell", "control"}

\* the well-formed message data callers store
\* (the channel of an entry without a cell id never matters to the cache, so
\* one channel stands for both there)
ValidValues ==
    {v \in [msg_id : MsgIds, channel : CacheChannels, cell_id : CellIds \cup {None}] :
        v.channel = "control" => v.cell_id # None}

\* message data that __setitem__ must reject
InvalidValues ==
    {[msg_id |-> Absent, channel |-> "shell", cell_id |-> "c1"],
     [msg_id |-> "m1", channel |-> Absent, cell_id |-> "c1"]}

VARIABLES
    by_msg_id,     \* KernelMessageCache._by_msg_id: the OrderedDict, oldest first
    by_cell_id,    \* KernelMessageCache._by_cell_id: cell id -> message data
    last,          \* history: the last cache call and its outcome
    scen,          \* history: the run of inserts with distinct message ids so far
    older          \* history: <<y, x>>: y was not accessed since x was last read

\* JupyterServerKernelClientMixin (message_cache is by_msg_id, by_cell_id)
VARIABLES
    connecting,        \* _connecting
    connection_ready,  \* _connection_ready
    ready_event,       \* _connection_ready_event is set
    queued_messages,   \* _queued_messages: <<channel_name, msg>>, oldest first
    drain_scheduled,   \* _process_queued_messages tasks created and not yet run
    channels,          \* "closed" / "open": start_channels and stop_channels
    tracked,           \* _monitoring_tasks holds running monitor tasks
    orphaned,          \* monitor tasks run that _monitoring_tasks no longer holds
    listeners,         \* _listeners
    execution_state,
    last_activity,
    last_shell_status_time,
    last_control_status_time,
    now,               \* the clock
    calls,             \* the connect() coroutines of the callers
    arrivals,          \* how many messages handle_incoming_message was given
    wire,              \* history: what _send_message transmitted, in order
    step               \* history: what the last step received, and the listeners it called

\* the fan-out of received messages to the listeners, one monitor loop per
\* channel
VARIABLES
    inflight,   \* per channel: the listeners whose tasks the loop's gather awaits
    arrived,    \* per channel: how many messages the kernel has put on the socket
    taken,      \* per channel: how many of them the monitor loop has received
    round,      \* history, per channel: the last message routed and what came of it
    wanted      \* history: what each add_listener call asked for

\* KernelManagerStateMixin of the kernel manager of one kernel, and
\* KernelClientRegistry
VARIABLES
    lifecycle_state,
    running,      \* per wrapped method: "no", or how far the call running is
    transition,   \* history: the wrapped call that began or ended last
    clients,      \* KernelClientRegistry.clients[kernel_id] of the kernel (0: no key)
    created,      \* how many clients kernel_manager.client() has made for it
    waiter,       \* the connect_client coroutine in _wait_for_kernel_started
    made,         \* history: the last create_client call and what it returned
    connects      \* history: who started the last connect(), in which lifecycle state

\* the wrappers _wrap_upstream_methods puts around the request methods
VARIABLES
    awaited,      \* the calls whose async_wrapper awaits the original method
    sent          \* history: the request a wrapped method transmitted last

cacheVars == <<by_msg_id, by_cell_id>>
histVars == <<last, scen, older>>
flagVars == <<connecting, connection_ready, ready_event>>
queueVars == <<queued_messages, drain_scheduled, arrivals, wire>>
chanVars == <<channels, tracked, orphaned>>
statusVars == <<execution_state, last_activity, last_shell_status_time,
                last_control_status_time>>
clientVars == <<flagVars, queueVars, chanVars, statusVars, listeners, now, calls, step>>
dispatchVars == <<inflight, arrived, taken, round, wanted>>
supervisorVars == <<lifecycle_state, running, transition, clients, created, waiter,
                    made, connects>>
requestVars == <<awaited, sent>>
serviceVars == <<dispatchVars, supervisorVars, requestVars>>
vars == <<cacheVars, histVars, clientVars, serviceVars>>

(***************************************************************************)
(* collections.OrderedDict as a sequence of [key, val], oldest first.      *)
(***************************************************************************)
Keys(od) == {od[i].key : i \in 1..Len(od)}

Has(od, k) == k \in Keys(od)

IndexOf(od, k) == CHOOSE i \in 1..Len(od) : od[i].key = k

Lookup(od, k) == od[IndexOf(od, k)].val

Without(od, k) == SelectSeq(od, LAMBDA e : e.key # k)

\* a move_to_end that leaves the key where it is
MoveToEndNoop(od, k) == od

\* OrderedDict.move_to_end(k)
MoveToEnd(od, k) == Append(Without(od, k), [key |-> k, val |-> Lookup(od, k)])

\* od[k] = v: an existing key keeps its position, a new key goes last
Assign(od, k, v) ==
    IF Has(od, k)
    THEN [od EXCEPT ![IndexOf(od, k)].val = v]
    ELSE Append(od, [key |-> k, val |-> v])

\* dict: del d[k] (callers check the key) and d[k] = v
DictDel(d, k) == [x \in DOMAIN d \ {k} |-> d[x]]

DictSet(d, k, v) == [x \in DOMAIN d \cup {k} |-> IF x = k THEN v ELSE d[x]]

EmptyDict == [x \in {} |-> NoEntry]

(***************************************************************************)
(* KernelMessageCache.  Every operation maps the two indices to a record   *)
(*   m, c     the indices after the call                                   *)
(*   res      "ok" or the exception the call raises                        *)
(*   out      the message data returned (NoEntry for None / nothing)       *)
(*   evicted  the key _remove_oldest popped, replaced: the key the         *)
(*            cell-id check of __setitem__ deleted                         *)
(***************************************************************************)
Outcome(m, c, res, out, evicted, replaced) ==
    [m |-> m, c |-> c, res |-> res, out |-> out,
     evicted |-> evicted, replaced |-> replaced]

Raise(m, c, exc) == Outcome(m, c, exc, NoEntry, NoId, NoId)

\* a _remove_oldest that pops the newest item
RemoveNewest(m, c) ==
    IF Len(m) = 0
    THEN Outcome(m, c, "ok", NoEntry, NoId, NoId)
    ELSE LET item == m[Len(m)].val
             c1 == IF item.cell_id # Absent /\ item.cell_id \in DOMAIN c
                   THEN DictDel(c, item.cell_id) ELSE c
         IN Outcome(SubSeq(m, 1, Len(m) - 1), c1, "ok", NoEntry, m[Len(m)].key, NoId)

\* _remove_oldest: popitem(last=False), then drop the item's cell id
RemoveOldest(m, c) ==
    IF Len(m) = 0
    THEN Outcome(m, c, "ok", NoEntry, NoId, NoId)
    ELSE LET item == Head(m).val
             c1 == IF item.cell_id # Absent /\ item.cell_id \in DOMAIN c
                   THEN DictDel(c, item.cell_id) ELSE c
         IN Outcome(Tail(m), c1, "ok", NoEntry, Head(m).key, NoId)

\* the part of __setitem__ after validation (lines 81-92)
Store(m, c, msg_id, value) ==
    LET collide == /\ value.channel = "shell"
                   /\ value.cell_id # Absent
                   /\ value.cell_id \in DOMAIN c
        existing == c[value.cell_id].msg_id
        replace == collide /\ msg_id # existing
    IN IF replace /\ ~Has(m, existing)
       THEN Raise(m, c, "KeyError")
       ELSE LET m1 == IF replace THEN Without(m, existing) ELSE m
                c1 == IF value.cell_id # Absent /\ value.cell_id # None
                      THEN DictSet(c, value.cell_id, value) ELSE c
                m2 == Assign(m1, msg_id, value)
                ev == IF Len(m2) > maxsize THEN RemoveOldest(m2, c1)
                      ELSE Outcome(m2, c1, "ok", NoEntry, NoId, NoId)
            IN Outcome(ev.m, ev.c, "ok", NoEntry, ev.evicted,
                       IF replace THEN existing ELSE NoId)

\* a __setitem__ that validates the channel only after storing
SetItemLateCheck(m, c, msg_id, value) ==
    IF value.msg_id = Absent THEN Raise(m, c, "MissingKeyException:msg_id")
    ELSE IF value.msg_id # msg_id THEN Raise(m, c, "InvalidKeyException")
    ELSE IF value.channel = Absent
         THEN Raise(Store(m, c, msg_id, value).m, Store(m, c, msg_id, value).c,
                    "MissingKeyException:channel")
    ELSE Store(m, c, msg_id, value)

\* __setitem__(msg_id, value)
SetItem(m, c, msg_id, value) ==
    IF value.msg_id = Absent THEN Raise(m, c, "MissingKeyException:msg_id")
    ELSE IF value.channel = Absent THEN Raise(m, c, "MissingKeyException:channel")
    ELSE IF value.msg_id # msg_id THEN Raise(m, c, "InvalidKeyException")
    ELSE Store(m, c, msg_id, value)

\* add(data): self[data['msg_id']] = data
Add(m, c, data) ==
    IF data.msg_id = Absent THEN Raise(m, c, "KeyError:msg_id")
    ELSE SetItem(m, c, data.msg_id, data)

\* __getitem__(msg_id)
GetItem(m, c, msg_id) ==
    IF ~Has(m, msg_id) THEN Raise(m, c, "KeyError")
    ELSE Outcome(MoveToEnd(m, msg_id), c, "ok", Lookup(m, msg_id), NoId, NoId)

\* get(msg_id=None, cell_id=None): the cell id is tried first; when its
\* entry is gone from _by_msg_id, move_to_end raises and the fallback looks
\* up the message id read from that entry
Get(m, c, msg_id, cell_id) ==
    IF cell_id \in DOMAIN c
    THEN IF Has(m, c[cell_id].msg_id)
         THEN Outcome(MoveToEnd(m, c[cell_id].msg_id), c, "ok", c[cell_id], NoId, NoId)
         ELSE Outcome(m, c, "ok", NoEntry, NoId, NoId)
    ELSE IF Has(m, msg_id)
         THEN Outcome(MoveToEnd(m, msg_id), c, "ok", Lookup(m, msg_id), NoId, NoId)
         ELSE Outcome(m, c, "ok", NoEntry, NoId, NoId)

\* the removal by message id that remove() falls back to and
\* __delitem__ performs once the key is known to be there
DropByMsgId(m, c, msg_id) ==
    LET cell == Lookup(m, msg_id).cell_id
        c1 == IF cell # Absent /\ cell \in DOMAIN c THEN DictDel(c, cell) ELSE c
    IN Outcome(Without(m, msg_id), c1, "ok", NoEntry, NoId, NoId)

\* a remove that, given a cell id, only forgets the cell id
RemoveCellIdOnly(m, c, msg_id, cell_id) ==
    IF cell_id \in DOMAIN c
    THEN Outcome(m, DictDel(c, cell_id), "ok", NoEntry, NoId, NoId)
    ELSE IF Has(m, msg_id)
         THEN DropByMsgId(m, c, msg_id)
         ELSE Outcome(m, c, "ok", NoEntry, NoId, NoId)

\* remove(msg_id=None, cell_id=None)
Remove(m, c, msg_id, cell_id) ==
    IF cell_id \in DOMAIN c
    THEN IF Has(m, c[cell_id].msg_id)
         THEN Outcome(Without(m, c[cell_id].msg_id), DictDel(c, cell_id),
                      "ok", NoEntry, NoId, NoId)
         ELSE Outcome(m, c, "ok", NoEntry, NoId, NoId)
    ELSE IF Has(m, msg_id)
         THEN DropByMsgId(m, c, msg_id)
         ELSE Outcome(m, c, "ok", NoEntry, NoId, NoId)

\* pop(msg_id=None, cell_id=None)
Pop(m, c, msg_id, cell_id) ==
    IF cell_id \notin DOMAIN c /\ ~Has(m, msg_id)
    THEN Raise(m, c, "KeyError")
    ELSE LET out == IF cell_id \in DOMAIN c THEN c[cell_id] ELSE Lookup(m, msg_id)
             r == Remove(m, c, out.msg_id, None)
         IN Outcome(r.m, r.c, "ok", out, NoId, NoId)

\* __delitem__(msg_id)
DelItem(m, c, msg_id) ==
    IF ~Has(m, msg_id) THEN Raise(m, c, "KeyError")
    ELSE DropByMsgId(m, c, msg_id)

\* clear()
\* a clear() that forgets the index by cell id
ClearByMsgIdOnly(m, c) == Outcome(<< >>, c, "ok", NoEntry, NoId, NoId)

Clear(m, c) == Outcome(<< >>, EmptyDict, "ok", NoEntry, NoId, NoId)

\* __contains__(msg_id) and __len__()
Contains(m, msg_id) == Has(m, msg_id)

CacheLen(m) == Len(m)


(***************************************************************************)
(* History variables.  They record what the callers did; no operation of   *)
(* the cache reads them.                                                   *)
(***************************************************************************)
Range(f) == {f[i] : i \in DOMAIN f}

SeqWithout(q, x) == SelectSeq(q, LAMBDA e : e # x)

KeySeq(od) == [i \in 1..Len(od) |-> od[i].key]

\* which check of __setitem__ the arguments fail
Bad(k, v) ==
    IF v.msg_id = Absent THEN "msg_id"
    ELSE IF v.channel = Absent THEN "channel"
    ELSE IF v.msg_id # k THEN "key"
    ELSE "none"

\* spared: the read entries that outlive the evicted one although it was
\* cached when they were read
Call(op, bad, r) ==
    [op |-> op, bad |-> bad, res |-> r.res,
     evicted |-> r.evicted, replaced |-> r.replaced,
     spared |-> {p[2] : p \in {q \in older : q[1] = r.evicted}}]

Puts == {"setitem", "add"}
Reads == {"getitem", "get"}

\* scen.hist: the message ids inserted so far, least recently accessed
\* first, while every call has been an insert of a new message id or a read;
\* scen.collided: one of these inserts replaced the entry of its cell id
ScenOver == [fresh |-> FALSE, collided |-> FALSE, hist |-> << >>]

ScenStart == [fresh |-> TRUE, collided |-> FALSE, hist |-> << >>]

ScenNext(op, id, r) ==
    IF ~scen.fresh THEN ScenOver
    ELSE IF r.res # "ok" THEN scen
    ELSE IF op \in Puts
         THEN IF id \in Range(scen.hist) THEN ScenOver
              ELSE [fresh |-> TRUE,
                    collided |-> scen.collided \/ r.replaced # NoId,
                    hist |-> Append(scen.hist, id)]
    ELSE IF op \in Reads
         THEN IF r.out = NoEntry THEN scen
              ELSE [scen EXCEPT !.hist = Append(SeqWithout(@, r.out.msg_id), r.out.msg_id)]
    ELSE ScenOver

\* older: pairs <<y, x>> of cached message ids: x was read, and y has been
\* neither read nor written since that read
OlderNext(op, id, r) ==
    LET touched == IF r.res # "ok" THEN {}
                   ELSE IF op \in Puts THEN {id}
                   ELSE IF op \in Reads /\ r.out # NoEntry THEN {r.out.msg_id}
                   ELSE {}
        kept == {p \in older : p[1] \notin touched /\ p[2] \notin touched
                               /\ p[1] \in Keys(r.m) /\ p[2] \in Keys(r.m)}
        read == IF r.res = "ok" /\ op \in Reads /\ r.out # NoEntry
                THEN {<<y, r.out.msg_id>> : y \in Keys(r.m) \ {r.out.msg_id}}
                ELSE {}
    IN kept \cup read

(***************************************************************************)
(* The cache driven by its callers: one action per public operation.       *)
(***************************************************************************)
Core(op, bad, r) ==
    /\ by_msg_id' = r.m
    /\ by_cell_id' = r.c
    /\ last' = Call(op, bad, r)
    /\ UNCHANGED <<clientVars, serviceVars>>

Apply(op, id, bad, r) ==
    /\ Core(op, bad, r)
    /\ scen' = ScenNext(op, id, r)
    /\ UNCHANGED older

\* cache[k] = v with the key the value names, and with another key
SetItemInputs ==
    {<<v.msg_id, v>> : v \in ValidValues}
      \cup ({"m1"} \X InvalidValues)
      \cup {<<"m1", [msg_id |-> "m2", channel |-> "shell", cell_id |-> "c1"]>>}

AddInputs == ValidValues \cup InvalidValues

\* get / remove / pop are called with a message id or with a cell id
KeyArgs == (MsgIds \X {None}) \cup ({None} \X CellIds)

CacheSetItem ==
    \E kv \in SetItemInputs :
        Apply("setitem", kv[1], Bad(kv[1], kv[2]),
              SetItem(by_msg_id, by_cell_id, kv[1], kv[2]))

CacheAdd ==
    \E v \in AddInputs :
        Apply("add", v.msg_id, Bad(v.msg_id, v), Add(by_msg_id, by_cell_id, v))

CacheGetItem ==
    \E k \in MsgIds :
        Apply("getitem", k, "none", GetItem(by_msg_id, by_cell_id, k))

CacheGet ==
    \E a \in KeyArgs :
        Apply("get", a[1], "none", Get(by_msg_id, by_cell_id, a[1], a[2]))

CacheRemove ==
    \E a \in KeyArgs :
        Apply("remove", a[1], "none", Remove(by_msg_id, by_cell_id, a[1], a[2]))

CachePop ==
    \E a \in KeyArgs :
        Apply("pop", a[1], "none", Pop(by_msg_id, by_cell_id, a[1], a[2]))

CacheDelItem ==
    \E k \in MsgIds :
        Apply("delitem", k, "none", DelItem(by_msg_id, by_cell_id, k))

CacheClear ==
    Apply("clear", None, "none", Clear(by_msg_id, by_cell_id))

(***************************************************************************)
(* The state of a JupyterServerKernelClientMixin after __init__.           *)
(***************************************************************************)
\* a timestamp that is None; the clock starts at 0
NoTime == -1

\* the coroutines that call connect()
Callers == {"a", "b"}

Listeners == {"l1"}

\* a connect() coroutine: where it is suspended (pc), what it returned (res),
\* the heartbeat polls so far (attempt), when its verification or its wait
\* began (since), when it last sent kernel_info (info), and, history, the
\* caller whose attempt it waits for (joined)
IdleCall ==
    [pc |-> "idle", res |-> "none", attempt |-> 0, since |-> NoTime,
     info |-> NoTime, joined |-> None]

NoStep == <<"none", {}>>

ClientInit ==
    /\ connecting = FALSE
    /\ connection_ready = FALSE
    /\ ready_event = FALSE
    /\ queued_messages = << >>
    /\ drain_scheduled = 0
    /\ channels = "closed"
    /\ tracked = FALSE
    /\ orphaned = FALSE
    /\ listeners = {}
    /\ execution_state = "unknown"
    /\ last_activity = NoTime
    /\ last_shell_status_time = NoTime
    /\ last_control_status_time = NoTime
    /\ now = 0
    /\ calls = [c \in Callers |-> IdleCall]
    /\ arrivals = 0
    /\ wire = << >>
    /\ step = NoStep

(***************************************************************************)
(* The fan-out with listeners that raise or do not return: the monitor     *)
(* loop of each channel, from the message on the socket to the end of      *)
(* _route_to_listeners.                                                    *)
(***************************************************************************)
\* the callbacks the callers register
Subscribers == {"s1", "s2"}

\* the channels start_listening monitors, a loop each (the broadcast one)
MonitoredChannels == {"iopub"}

\* what a listener does when it is called: it returns, it raises, or it is a
\* coroutine that does not finish for now
Hows == {"returns", "raises", "hangs"}

\* the keyword arguments the callers of add_listener pass: none, msg_types=
\* [("status", "iopub")], exclude_msg_types=[("status", "iopub")]
Requests == {"none", "msg_types", "exclude_msg_types"}

NoRound ==
    [n |-> 0, pair |-> <<None, None>>, ls |-> {}, asked |-> << >>, called |-> {},
     raised |-> {}, hung |-> {}, error |-> FALSE]

DispatchInit ==
    /\ inflight = [ch \in MonitoredChannels |-> {}]
    /\ arrived = [ch \in MonitoredChannels |-> 0]
    /\ taken = [ch \in MonitoredChannels |-> 0]
    /\ round = [ch \in MonitoredChannels |-> NoRound]
    /\ wanted = [l \in Subscribers |-> None]

(***************************************************************************)
(* KernelManagerStateMixin: the wrappers state_transition puts around       *)
(* start_kernel, restart_kernel and shutdown_kernel.                       *)
(***************************************************************************)
Ops == {"start_kernel", "restart_kernel", "shutdown_kernel"}

\* a mixin whose shutdown_kernel has no end state of its own
TransitionsWithoutDead ==
    [start_kernel |-> <<"starting", "started">>,
     restart_kernel |-> <<"restarting", "started">>,
     shutdown_kernel |-> <<"terminating", "terminating">>]

\* __init_subclass__: <<start_state, end_state>> of each wrapped method
Transitions ==
    [start_kernel |-> <<"starting", "started">>,
     restart_kernel |-> <<"restarting", "started">>,
     shutdown_kernel |-> <<"terminating", "dead">>]

\* how the wrapped method ends: it returns, it raises an Exception, or (a
\* coroutine) it is cancelled at an await: CancelledError is a BaseException
Outcomes(how) ==
    [kind : {"returns"}, exc : {None}]
        \cup [kind : {"raises"}, exc : {"RuntimeError", "OSError"}]
        \cup IF how = "sync" THEN {} ELSE [kind : {"cancelled"}, exc : {"CancelledError"}]

\* a wrapper without the except clause
StateTransitionNoExcept(state, end_state, outcome) ==
    [state |-> IF outcome.kind = "returns" THEN end_state ELSE state,
     raised |-> outcome.exc]

\* async_wrapper and sync_wrapper once the method has ended: the lifecycle
\* state they leave and the exception that leaves them
StateTransition(state, end_state, outcome) ==
    [state |-> IF outcome.kind = "returns" THEN end_state
               ELSE IF outcome.kind = "raises" THEN "unknown"
               ELSE state,
     raised |-> outcome.exc]

\* KernelClientRegistry.create_client(kernel_id) with the directory entry
\* cl (0: none) and n clients made so far, never reusing one
CreateClientAnew(cl, n, km) ==
    IF ~km THEN [clients |-> cl, created |-> n, ret |-> 0]
    ELSE [clients |-> n + 1, created |-> n + 1, ret |-> n + 1]

\* KernelClientRegistry.create_client(kernel_id): cl is the directory entry
\* of the kernel id (0: none), n the clients made so far, km whether the
\* multi kernel manager knows the kernel; ret is the client returned (0: None)
CreateClientCall(cl, n, km) ==
    IF cl # 0 THEN [clients |-> cl, created |-> n, ret |-> cl]
    ELSE IF ~km THEN [clients |-> cl, created |-> n, ret |-> 0]
    ELSE [clients |-> n + 1, created |-> n + 1, ret |-> n + 1]

SupervisorInit ==
    /\ lifecycle_state = "unknown"
    /\ running = [op \in Ops |-> "no"]
    /\ transition = [began |-> None, prior |-> None, ended |-> None, how |-> None,
                     outcome |-> [kind |-> None, exc |-> None], raised |-> None]
    /\ clients = 0
    /\ created = 0
    /\ waiter = [pc |-> "idle", client |-> 0, polls |-> 0, res |-> None]
    /\ made = [had |-> 0, before |-> 0, returned |-> 0, after |-> 0]
    /\ connects = <<None, None>>

\* no request method was called yet
RequestInit ==
    /\ awaited = {}
    /\ sent = [id |-> None, method |-> None, cached |-> FALSE]

NoCall ==
    [op |-> "init", bad |-> "none", res |-> "ok",
     evicted |-> NoId, replaced |-> NoId, spared |-> {}]

Init ==
    /\ by_msg_id = << >>
    /\ by_cell_id = EmptyDict
    /\ last = NoCall
    /\ scen = ScenStart
    /\ older = {}
    /\ ClientInit
    /\ DispatchInit
    /\ SupervisorInit
    /\ RequestInit

Next ==
    \/ CacheSetItem
    \/ CacheAdd
    \/ CacheGetItem
    \/ CacheGet
    \/ CacheRemove
    \/ CachePop
    \/ CacheDelItem
    \/ CacheClear

Spec == Init /\ [][Next]_vars

(***************************************************************************)
(* The same cache with the reads tracked (older): inserts, reads and       *)
(* removals.                                                               *)
(***************************************************************************)
LruValues == ValidValues

ApplyLru(op, id, r) ==
    /\ Core(op, "none", r)
    /\ older' = OlderNext(op, id, r)
    /\ UNCHANGED scen

LruAdd ==
    \E v \in LruValues :
        ApplyLru("add", v.msg_id, Add(by_msg_id, by_cell_id, v))

LruGetItem ==
    \E k \in MsgIds :
        ApplyLru("getitem", k, GetItem(by_msg_id, by_cell_id, k))

LruGet ==
    \E a \in KeyArgs :
        ApplyLru("get", a[1], Get(by_msg_id, by_cell_id, a[1], a[2]))

LruRemove ==
    \E a \in KeyArgs :
        ApplyLru("remove", a[1], Remove(by_msg_id, by_cell_id, a[1], a[2]))

NextLru ==
    \/ LruAdd
    \/ LruGetItem
    \/ LruGet
    \/ LruRemove

SpecLru == Init /\ [][NextLru]_vars

(***************************************************************************)
(* JupyterServerKernelClientMixin: the parts that compute.                 *)
(***************************************************************************)
\* the channels whose messages handle_incoming_message is given
ClientChannels == {"shell", "control"}

\* _wrap_upstream_methods: methods_to_wrap
MethodsToWrap ==
    {"execute", "execute_interactive", "complete", "inspect", "history",
     "is_complete", "comm_info", "kernel_info", "shutdown", "restart"}

\* _get_channel_for_method(method_name)
GetChannelForMethod(method_name) ==
    IF method_name \in {"shutdown", "restart"} THEN "control"
    ELSE IF method_name \in {"input"} THEN "stdin"
    ELSE "shell"

\* _extract_message_id_and_cache(client, result, method_name, kwargs): found
\* is whether the result carries a message id
ExtractMessageIdAndCache(m, c, found, id, method_name, cell_id) ==
    IF found
    THEN Add(m, c, [msg_id |-> id, channel |-> GetChannelForMethod(method_name),
                    cell_id |-> cell_id])
    ELSE Outcome(m, c, "ok", NoEntry, NoId, NoId)

\* what _send_kernel_info_shell and _send_kernel_info_control record
KernelInfoShell == [msg_id |-> "ks", channel |-> "shell", cell_id |-> None]

KernelInfoControl == [msg_id |-> "kc", channel |-> "control", cell_id |-> None]

\* what the monitor loops receive from the kernel
Parents == {"m1", "ks", "kc", None}

StatusMessages ==
    [msg_type : {"status"}, parent : Parents, execution_state : {"busy", "idle"}]

StreamMessage == [msg_type |-> "stream", parent |-> "m1", execution_state |-> None]

ShellReply == [msg_type |-> "status", parent |-> "m1", execution_state |-> "idle"]

\* <<channel_name, msg>>: the broadcast (iopub) channel carries status and
\* other messages, the other monitored channels carry replies
Received ==
    ({"iopub"} \X (StatusMessages \cup {StreamMessage})) \cup {<<"shell", ShellReply>>}

\* a queue that keeps everything
QueueWithoutBound(ready, q, msg) ==
    IF ~ready
    THEN [queued |-> TRUE, q |-> Append(q, msg)]
    ELSE [queued |-> FALSE, q |-> q]

\* _queue_message_if_not_ready(channel_name, msg): what it returns, and
\* _queued_messages after it
QueueMessageIfNotReady(ready, q, msg) ==
    IF ~ready
    THEN [queued |-> TRUE,
          q |-> IF Len(q) < max_queue_size
                THEN Append(q, msg)
                ELSE Append(Tail(q), msg)]
    ELSE [queued |-> FALSE, q |-> q]

\* _send_message(channel_name, msg): send_raw on the channel's socket; when
\* that raises, the exception is logged and the message is gone.  The
\* history keeps every call: how it came (via) and whether it went out (ok)
SendMessage(w, open, msg, via) ==
    Append(w, [channel |-> msg[1], id |-> msg[2], via |-> via, ok |-> open])

RECURSIVE SendEach(_, _, _, _)
SendEach(q, w, open, via) ==
    IF q = << >> THEN w
    ELSE SendEach(Tail(q), SendMessage(w, open, Head(q), via), open, via)

\* _process_queued_messages(): copy, clear, send each
ProcessQueuedMessages(q, w, open, via) ==
    [q |-> << >>, w |-> SendEach(q, w, open, via)]

\* _route_to_listeners(channel_name, msg): the listeners that are called
RouteToListeners(ls) == ls

\* the part of the client that _update_execution_state_from_status touches
ClientState ==
    [m |-> by_msg_id, c |-> by_cell_id,
     execution_state |-> execution_state,
     last_activity |-> last_activity,
     last_shell_status_time |-> last_shell_status_time,
     last_control_status_time |-> last_control_status_time]

\* the update for a parent whose cached channel is parent_channel
StatusUpdate(st, got, parent_channel, msg, t) ==
    [m |-> got.m, c |-> got.c,
     execution_state |->
         IF parent_channel = "shell" /\ msg.execution_state # None
         THEN msg.execution_state ELSE st.execution_state,
     last_activity |->
         IF parent_channel = "shell" THEN t ELSE st.last_activity,
     last_shell_status_time |->
         IF parent_channel = "shell" THEN t ELSE st.last_shell_status_time,
     last_control_status_time |->
         IF parent_channel = "control" THEN t ELSE st.last_control_status_time]

\* an update that takes a parent it does not know for a shell request
UpdateWithoutCache(st, channel_name, msg, t) ==
    IF channel_name # "iopub" \/ msg.msg_type # "status" THEN st
    ELSE IF msg.parent # None /\ Contains(st.m, msg.parent)
    THEN LET got == GetItem(st.m, st.c, msg.parent)
         IN StatusUpdate(st, got, got.out.channel, msg, t)
    ELSE StatusUpdate(st, st, "shell", msg, t)

\* an update that does not look at the parent's channel
UpdateAnyChannel(st, channel_name, msg, t) ==
    IF channel_name # "iopub" \/ msg.msg_type # "status" THEN st
    ELSE IF msg.parent # None /\ Contains(st.m, msg.parent)
    THEN LET got == GetItem(st.m, st.c, msg.parent)
         IN [StatusUpdate(st, got, got.out.channel, msg, t)
                EXCEPT !.execution_state = msg.execution_state]
    ELSE st

\* _update_execution_state_from_status(channel_name, msg_dict) at time t
UpdateExecutionStateFromStatus(st, channel_name, msg, t) ==
    IF channel_name # "iopub" \/ msg.msg_type # "status" THEN st
    ELSE IF msg.parent # None /\ Contains(st.m, msg.parent)
    THEN LET got == GetItem(st.m, st.c, msg.parent)
         IN StatusUpdate(st, got, got.out.channel, msg, t)
    ELSE st

\* the two kernel_info requests of _test_kernel_communication: the shell one
\* is recorded after it was sent, the control one before
SendKernelInfo(m, c, open) ==
    LET r1 == IF open THEN Add(m, c, KernelInfoShell)
              ELSE Outcome(m, c, "ok", NoEntry, NoId, NoId)
    IN Add(r1.m, r1.c, KernelInfoControl)

(***************************************************************************)
(* The client driven by its callers, the websocket side, the kernel and    *)
(* the clock.  A step is what runs between two awaits.                     *)
(***************************************************************************)
Done(res, joined) == [IdleCall EXCEPT !.pc = "done", !.res = res, !.joined = joined]

InAttempt(c) == calls[c].pc \in {"hb", "sleep", "test"}

\* the attempt a new waiter joins
OwnerFor(c) ==
    LET owners == {d \in Callers \ {c} : InAttempt(d)}
    IN IF Cardinality(owners) = 1 THEN CHOOSE d \in owners : TRUE ELSE None

\* a new call of c ends what was recorded about its previous one
Forget(c, cs) ==
    [d \in Callers |-> IF d # c /\ cs[d].joined = c
                       THEN [cs[d] EXCEPT !.joined = None] ELSE cs[d]]

\* a channel that start_channels opened takes the message; the channel
\* properties of jupyter_client decide what a closed or cleared one does
\* (they are not part of this repository): either outcome is possible
Usable(lazy) == channels = "open" \/ lazy

Lazy == IF channels = "open" THEN {TRUE} ELSE BOOLEAN

\* the steps that a timer or the socket wakes run after the tasks that are
\* ready, the scheduled _process_queued_messages among them
LoopIdle == drain_scheduled = 0

\* connect(), up to its first await
Connect(c) ==
    /\ calls[c].pc \in {"idle", "done"}
    /\ \E ok \in BOOLEAN, beating \in BOOLEAN :
        IF connecting
        THEN /\ calls' = [Forget(c, calls) EXCEPT ![c] =
                            IF ready_event THEN Done("True", None)
                            ELSE [IdleCall EXCEPT !.pc = "wait", !.since = now,
                                                  !.joined = OwnerFor(c)]]
             /\ step' = NoStep
             /\ UNCHANGED <<flagVars, chanVars, statusVars>>
        ELSE IF connection_ready
        THEN /\ calls' = [Forget(c, calls) EXCEPT ![c] = Done("True", None)]
             /\ step' = NoStep
             /\ UNCHANGED <<flagVars, chanVars, statusVars>>
        ELSE /\ execution_state' = "busy"
             /\ last_activity' = now
             /\ UNCHANGED <<last_shell_status_time, last_control_status_time>>
             /\ UNCHANGED <<connection_ready, ready_event>>
             /\ IF ~ok
                THEN \* start_channels raises
                     /\ connecting' = FALSE
                     /\ calls' = [Forget(c, calls) EXCEPT ![c] = Done("False", None)]
                     /\ step' = NoStep
                     /\ UNCHANGED chanVars
                ELSE /\ channels' = "open"
                     /\ orphaned' = (channels = "open" /\ (orphaned \/ tracked))
                     /\ tracked' = TRUE
                     /\ IF beating
                        THEN /\ connecting' = TRUE
                             /\ calls' = [Forget(c, calls) EXCEPT ![c] =
                                    [IdleCall EXCEPT !.pc = "sleep", !.since = now]]
                        ELSE IF 1 > max_attempts
                        THEN /\ connecting' = FALSE
                             /\ calls' = [Forget(c, calls) EXCEPT ![c] = Done("False", None)]
                        ELSE /\ connecting' = TRUE
                             /\ calls' = [Forget(c, calls) EXCEPT ![c] =
                                    [IdleCall EXCEPT !.pc = "hb", !.attempt = 1]]
                     /\ step' = NoStep
    /\ UNCHANGED <<cacheVars, histVars, queueVars, listeners, now>>

\* connect() called on the client by one of its users
ConnectBegin(c) == Connect(c) /\ UNCHANGED serviceVars

\* a heartbeat loop that polls once more than max_attempts allows
HbPollOnceMore(c) ==
    /\ calls[c].pc = "hb"
    /\ LoopIdle
    /\ \E beating \in BOOLEAN :
        IF beating
        THEN /\ calls' = [calls EXCEPT ![c] = [IdleCall EXCEPT !.pc = "sleep", !.since = now]]
             /\ UNCHANGED connecting
        ELSE IF calls[c].attempt > max_attempts
        THEN /\ connecting' = FALSE
             /\ calls' = [calls EXCEPT ![c] = Done("False", None)]
        ELSE /\ calls' = [calls EXCEPT ![c].attempt = @ + 1]
             /\ UNCHANGED connecting
    /\ step' = NoStep
    /\ UNCHANGED <<cacheVars, histVars, serviceVars, connection_ready, ready_event, queueVars,
                   chanVars, statusVars, listeners, now>>

\* the heartbeat loop of connect() after a sleep
HbPoll(c) ==
    /\ calls[c].pc = "hb"
    /\ LoopIdle
    /\ \E beating \in BOOLEAN :
        IF beating
        THEN /\ calls' = [calls EXCEPT ![c] = [IdleCall EXCEPT !.pc = "sleep", !.since = now]]
             /\ UNCHANGED connecting
        ELSE IF calls[c].attempt + 1 > max_attempts
        THEN /\ connecting' = FALSE
             /\ calls' = [calls EXCEPT ![c] = Done("False", None)]
        ELSE /\ calls' = [calls EXCEPT ![c].attempt = @ + 1]
             /\ UNCHANGED connecting
    /\ step' = NoStep
    /\ UNCHANGED <<cacheVars, histVars, serviceVars, connection_ready, ready_event, queueVars,
                   chanVars, statusVars, listeners, now>>

\* a verification that marks the connection ready whatever the test returns
VerifyWithoutTest(c, r, info, open) ==
    /\ connecting' = FALSE
    /\ connection_ready' = TRUE
    /\ ready_event' = TRUE
    /\ drain_scheduled' = IF connection_ready THEN drain_scheduled
                          ELSE drain_scheduled + 1
    /\ UNCHANGED <<execution_state, last_activity>>
    /\ calls' = [calls EXCEPT ![c] =
                    Done(IF now - calls[c].since < TestTimeout THEN "True" ELSE "False",
                         None)]
    /\ by_msg_id' = r.m /\ by_cell_id' = r.c

\* a verification that takes a status recorded before it began
VerifyAnyStatus(c, r, info, open) ==
    LET since == calls[c].since
        heard(t) == t # NoTime
    IN IF ~(now - since < TestTimeout)
       THEN \* the test returns False, and so does connect()
            /\ calls' = [calls EXCEPT ![c] = Done("False", None)]
            /\ by_msg_id' = r.m /\ by_cell_id' = r.c
            /\ UNCHANGED <<flagVars, drain_scheduled, execution_state, last_activity>>
       ELSE IF \/ execution_state = "idle"
               \/ heard(last_shell_status_time)
               \/ heard(last_control_status_time)
       THEN \* the test returns True: mark_connection_ready() and return True
            /\ connecting' = IF connection_ready THEN connecting ELSE FALSE
            /\ connection_ready' = TRUE
            /\ ready_event' = IF connection_ready THEN ready_event ELSE TRUE
            /\ drain_scheduled' = IF connection_ready THEN drain_scheduled
                                  ELSE drain_scheduled + 1
            /\ execution_state' = IF execution_state = "busy" THEN "idle"
                                  ELSE execution_state
            /\ last_activity' = IF execution_state = "busy" THEN now ELSE last_activity
            /\ calls' = [d \in Callers |->
                           IF d = c THEN Done("True", None)
                           ELSE IF calls[d].pc = "wait" /\ ~connection_ready
                           THEN [calls[d] EXCEPT !.pc = "woken"]
                           ELSE calls[d]]
            /\ by_msg_id' = r.m /\ by_cell_id' = r.c
       ELSE LET again == now - info >= RetryInterval
                r2 == IF again THEN SendKernelInfo(r.m, r.c, open) ELSE r
            IN /\ calls' = [calls EXCEPT ![c].pc = "test",
                                         ![c].info = IF again THEN now ELSE info]
               /\ by_msg_id' = r2.m /\ by_cell_id' = r2.c
               /\ UNCHANGED <<flagVars, drain_scheduled, execution_state, last_activity>>

\* the loop of _test_kernel_communication from its condition to its sleep,
\* and the rest of connect() when it returns; the cache is r, the last
\* kernel_info was sent at info
Verify(c, r, info, open) ==
    LET since == calls[c].since
        heard(t) == t # NoTime /\ t > since
    IN IF ~(now - since < TestTimeout)
       THEN \* the test returns False, and so does connect()
            /\ calls' = [calls EXCEPT ![c] = Done("False", None)]
            /\ by_msg_id' = r.m /\ by_cell_id' = r.c
            /\ UNCHANGED <<flagVars, drain_scheduled, execution_state, last_activity>>
       ELSE IF \/ execution_state = "idle"
               \/ heard(last_shell_status_time)
               \/ heard(last_control_status_time)
       THEN \* the test returns True: mark_connection_ready() and return True
            /\ connecting' = IF connection_ready THEN connecting ELSE FALSE
            /\ connection_ready' = TRUE
            /\ ready_event' = IF connection_ready THEN ready_event ELSE TRUE
            /\ drain_scheduled' = IF connection_ready THEN drain_scheduled
                                  ELSE drain_scheduled + 1
            /\ execution_state' = IF execution_state = "busy" THEN "idle"
                                  ELSE execution_state
            /\ last_activity' = IF execution_state = "busy" THEN now ELSE last_activity
            /\ calls' = [d \in Callers |->
                           IF d = c THEN Done("True", None)
                           ELSE IF calls[d].pc = "wait" /\ ~connection_ready
                           THEN [calls[d] EXCEPT !.pc = "woken"]
                           ELSE calls[d]]
            /\ by_msg_id' = r.m /\ by_cell_id' = r.c
       ELSE LET again == now - info >= RetryInterval
                r2 == IF again THEN SendKernelInfo(r.m, r.c, open) ELSE r
            IN /\ calls' = [calls EXCEPT ![c].pc = "test",
                                         ![c].info = IF again THEN now ELSE info]
               /\ by_msg_id' = r2.m /\ by_cell_id' = r2.c
               /\ UNCHANGED <<flagVars, drain_scheduled, execution_state, last_activity>>

\* _test_kernel_communication after its first sleep: the kernel_info requests
TestSend(c) ==
    /\ calls[c].pc = "sleep"
    /\ LoopIdle
    /\ \E lazy \in Lazy :
          Verify(c, SendKernelInfo(by_msg_id, by_cell_id, Usable(lazy)), now, Usable(lazy))
    /\ step' = NoStep
    /\ UNCHANGED <<histVars, serviceVars, queued_messages, arrivals, wire, chanVars,
                   last_shell_status_time, last_control_status_time, listeners, now>>

\* _test_kernel_communication after a sleep of its loop
TestCheck(c) ==
    /\ calls[c].pc = "test"
    /\ LoopIdle
    /\ \E lazy \in Lazy :
          Verify(c, Outcome(by_msg_id, by_cell_id, "ok", NoEntry, NoId, NoId),
                 calls[c].info, Usable(lazy))
    /\ step' = NoStep
    /\ UNCHANGED <<histVars, serviceVars, queued_messages, arrivals, wire, chanVars,
                   last_shell_status_time, last_control_status_time, listeners, now>>

\* wait_for_connection_ready(): the event was set
WaitWoken(c) ==
    /\ calls[c].pc = "woken"
    /\ calls' = [calls EXCEPT ![c] = Done("True", calls[c].joined)]
    /\ step' = NoStep
    /\ UNCHANGED <<cacheVars, histVars, serviceVars, flagVars, queueVars, chanVars, statusVars,
                   listeners, now>>

\* wait_for_connection_ready(): asyncio.TimeoutError
WaitTimedOut(c) ==
    /\ calls[c].pc = "wait"
    /\ LoopIdle
    /\ now - calls[c].since >= WaitTimeout
    /\ calls' = [calls EXCEPT ![c] = Done("False", calls[c].joined)]
    /\ step' = NoStep
    /\ UNCHANGED <<cacheVars, histVars, serviceVars, flagVars, queueVars, chanVars, statusVars,
                   listeners, now>>

\* the task that mark_connection_ready() created
ProcessQueued ==
    /\ drain_scheduled > 0
    /\ \E lazy \in Lazy :
        LET r == ProcessQueuedMessages(queued_messages, wire, Usable(lazy),
                                       IF connection_ready THEN "queue" ELSE "stale")
        IN /\ queued_messages' = r.q
           /\ wire' = r.w
    /\ step' = NoStep
    /\ drain_scheduled' = drain_scheduled - 1
    /\ UNCHANGED <<cacheVars, histVars, serviceVars, flagVars, arrivals, chanVars, statusVars,
                   listeners, now, calls>>

\* handle_incoming_message(channel_name, msg) with a message the session
\* can unpack, and with an empty one
HandleIncomingMessage(names, cells) ==
    /\ \E in \in {<<"empty", None>>} \cup (names \X cells), lazy \in Lazy :
        IF in[1] = "empty"
        THEN UNCHANGED <<cacheVars, queueVars, step>>
        ELSE /\ arrivals < NumMsgIds
             /\ LET channel_name == in[1]
                    id == MsgNames[arrivals + 1]
                    msg == <<channel_name, id>>
                    r == Add(by_msg_id, by_cell_id,
                             [msg_id |-> id, channel |-> channel_name, cell_id |-> in[2]])
                    q == QueueMessageIfNotReady(connection_ready, queued_messages, msg)
                IN /\ by_msg_id' = r.m
                   /\ by_cell_id' = r.c
                   /\ queued_messages' = q.q
                   /\ wire' = IF q.queued THEN wire
                              ELSE SendMessage(wire, Usable(lazy), msg, "direct")
                   /\ step' = <<IF ~q.queued THEN "sent"
                                ELSE IF Len(queued_messages) >= max_queue_size
                                THEN "dropped" ELSE "queued", {}>>
             /\ arrivals' = arrivals + 1
             /\ UNCHANGED drain_scheduled
    /\ UNCHANGED <<histVars, serviceVars, flagVars, chanVars, statusVars, listeners, now, calls>>

\* where a status message's parent was sent, as the cache knows it
Origin(channel_name, msg) ==
    IF channel_name # "iopub" \/ msg.msg_type # "status" THEN "other"
    ELSE IF msg.parent # None /\ Contains(by_msg_id, msg.parent)
    THEN Lookup(by_msg_id, msg.parent).channel
    ELSE "uncached"

\* one round of _monitor_channel_messages with a message ready
MonitorChannelMessages(received) ==
    /\ tracked \/ orphaned
    /\ channels = "open"
    /\ LoopIdle
    /\ \E rcv \in received :
        LET channel_name == rcv[1]
            msg == rcv[2]
            st == UpdateExecutionStateFromStatus(ClientState, channel_name, msg, now)
        IN /\ by_msg_id' = st.m
           /\ by_cell_id' = st.c
           /\ execution_state' = st.execution_state
           /\ last_activity' = st.last_activity
           /\ last_shell_status_time' = st.last_shell_status_time
           /\ last_control_status_time' = st.last_control_status_time
           /\ step' = <<Origin(channel_name, msg), RouteToListeners(listeners)>>
    /\ UNCHANGED <<histVars, serviceVars, flagVars, queueVars, chanVars, listeners, now, calls>>

\* a disconnect() that also empties _listeners
DisconnectForgetsListeners ==
    /\ tracked' = FALSE
    /\ orphaned' = orphaned
    /\ channels' = "closed"
    /\ connecting' = FALSE
    /\ connection_ready' = FALSE
    /\ ready_event' = FALSE
    /\ listeners' = {}
    /\ step' = NoStep
    /\ UNCHANGED <<cacheVars, histVars, serviceVars, queueVars, statusVars, now, calls>>

\* disconnect()
Disconnect ==
    /\ tracked' = FALSE
    /\ orphaned' = orphaned
    /\ channels' = "closed"
    /\ connecting' = FALSE
    /\ connection_ready' = FALSE
    /\ ready_event' = FALSE
    /\ step' = NoStep
    /\ UNCHANGED <<cacheVars, histVars, serviceVars, queueVars, statusVars, listeners, now, calls>>

\* a monitor task that stop_listening did not cancel leaves its loop when
\* it finds that the channel is no longer alive
OrphanEnds ==
    /\ orphaned
    /\ channels = "closed"
    /\ orphaned' = FALSE
    /\ step' = NoStep
    /\ UNCHANGED <<cacheVars, histVars, serviceVars, flagVars, queueVars, channels, tracked,
                   statusVars, listeners, now, calls>>

AddListener ==
    \E l \in Listeners :
        /\ listeners' = listeners \cup {l}
        /\ step' = NoStep
        /\ UNCHANGED <<cacheVars, histVars, serviceVars, flagVars, queueVars, chanVars, statusVars,
                       now, calls>>

RemoveListener ==
    \E l \in Listeners :
        /\ listeners' = listeners \ {l}
        /\ step' = NoStep
        /\ UNCHANGED <<cacheVars, histVars, serviceVars, flagVars, queueVars, chanVars, statusVars,
                       now, calls>>

\* time passes, unless a timeout is due
Tick ==
    /\ now < MaxTime
    /\ LoopIdle
    /\ \A c \in Callers :
        /\ calls[c].pc = "wait" => now - calls[c].since < WaitTimeout
        /\ calls[c].pc = "test" => now - calls[c].since < TestTimeout
    /\ now' = now + 1
    /\ step' = NoStep
    /\ UNCHANGED <<cacheVars, histVars, serviceVars, flagVars, queueVars, chanVars, statusVars,
                   listeners, calls>>

\* a wrapped request method is called: the original method transmits the
\* request, and sync_wrapper records it when the method has returned;
\* async_wrapper awaits the method first.  Which of the two wrappers a
\* method has, and whether its result carries the message id, is decided by
\* jupyter_client
UpstreamCall(methods, cells) ==
    /\ \E name \in methods, cell \in cells, how \in {"sync", "async"},
          found \in BOOLEAN,
          id \in MsgIds \ (Keys(by_msg_id) \cup {r.id : r \in awaited}) :
        /\ how = "async" => Cardinality(awaited) < MaxAwaited
        /\ sent' = [id |-> id, method |-> name, cached |-> Contains(by_msg_id, id)]
        /\ IF how = "sync"
           THEN LET r == ExtractMessageIdAndCache(by_msg_id, by_cell_id, found, id,
                                                 name, cell)
                IN /\ by_msg_id' = r.m
                   /\ by_cell_id' = r.c
                   /\ UNCHANGED awaited
           ELSE /\ awaited' = awaited \cup {[id |-> id, method |-> name, cell |-> cell,
                                             found |-> found]}
                /\ UNCHANGED cacheVars
    /\ step' = NoStep
    /\ UNCHANGED <<histVars, dispatchVars, supervisorVars, flagVars, queueVars, chanVars,
                   statusVars, listeners, now, calls>>

\* the original method returns to its async_wrapper
UpstreamReturn ==
    /\ \E call \in awaited :
        LET r == ExtractMessageIdAndCache(by_msg_id, by_cell_id, call.found, call.id,
                                          call.method, call.cell)
        IN /\ by_msg_id' = r.m
           /\ by_cell_id' = r.c
           /\ awaited' = awaited \ {call}
    /\ step' = NoStep
    /\ UNCHANGED <<histVars, dispatchVars, supervisorVars, sent, flagVars, queueVars,
                   chanVars, statusVars, listeners, now, calls>>

(***************************************************************************)
(* The queue of the messages that arrive before the connection is ready:   *)
(* one caller connects, disconnects and connects again, the websocket side *)
(* passes messages, the kernel answers the kernel_info requests.           *)
(***************************************************************************)
KernelInfoReplies ==
    [msg_type : {"status"}, parent : {"ks", "kc"}, execution_state : {"busy", "idle"}]

NextQueue ==
    \/ ConnectBegin("a")
    \/ HbPoll("a")
    \/ TestSend("a")
    \/ TestCheck("a")
    \/ ProcessQueued
    \/ HandleIncomingMessage({"shell"}, {None})
    \/ MonitorChannelMessages({"iopub"} \X KernelInfoReplies)
    \/ Disconnect
    \/ OrphanEnds

SpecQueue == Init /\ [][NextQueue]_vars

(***************************************************************************)
(* Two callers of connect(), with the clock.                               *)
(***************************************************************************)
NextConnect ==
    \/ \E c \in Callers : ConnectBegin(c)
    \/ \E c \in Callers : HbPoll(c)
    \/ \E c \in Callers : TestSend(c)
    \/ \E c \in Callers : TestCheck(c)
    \/ \E c \in Callers : WaitWoken(c)
    \/ \E c \in Callers : WaitTimedOut(c)
    \/ ProcessQueued
    \/ MonitorChannelMessages({"iopub"} \X KernelInfoReplies)
    \/ Disconnect
    \/ OrphanEnds
    \/ Tick

SpecConnect == Init /\ [][NextConnect]_vars

(***************************************************************************)
(* The client in service: one caller connects, requests pass through the   *)
(* client, the kernel's messages come back on the monitored channels and   *)
(* go to the listeners.                                                    *)
(***************************************************************************)
NextClient ==
    \/ ConnectBegin("a")
    \/ HbPoll("a")
    \/ TestSend("a")
    \/ TestCheck("a")
    \/ ProcessQueued
    \/ HandleIncomingMessage({"shell"}, {None})
    \/ MonitorChannelMessages(Received)
    \/ AddListener
    \/ RemoveListener

SpecClient == Init /\ [][NextClient]_vars

(***************************************************************************)
(* The client with its listeners while one caller connects and             *)
(* disconnects.                                                            *)
(***************************************************************************)
NextReconnect ==
    \/ ConnectBegin("a")
    \/ HbPoll("a")
    \/ TestSend("a")
    \/ TestCheck("a")
    \/ ProcessQueued
    \/ MonitorChannelMessages({"iopub"} \X KernelInfoReplies)
    \/ Disconnect
    \/ OrphanEnds
    \/ AddListener
    \/ RemoveListener

SpecReconnect == Init /\ [][NextReconnect]_vars

(***************************************************************************)
(* The requests the server makes through the wrapped methods of the        *)
(* client, with the kernel answering.                                      *)
(***************************************************************************)
NextRequests ==
    \/ ConnectBegin("a")
    \/ HbPoll("a")
    \/ TestSend("a")
    \/ TestCheck("a")
    \/ ProcessQueued
    \/ UpstreamCall({"execute", "shutdown"}, {None})
    \/ UpstreamReturn
    \/ MonitorChannelMessages({"iopub"} \X StatusMessages)

SpecRequests == Init /\ [][NextRequests]_vars

\* what the kernel sends on each monitored channel
DispatchMessages(ch) ==
    IF ch = "iopub"
    THEN {[msg_type |-> "status", parent |-> "ks", execution_state |-> "idle"],
          StreamMessage}
    ELSE {ShellReply}

\* add_listener(callback, **kw): the signature takes the callback only
AddListenerCall(ls, l, kw) ==
    IF kw = "none"
    THEN [ls |-> ls \cup {l}, res |-> "ok"]
    ELSE [ls |-> ls, res |-> "TypeError"]

\* _call_listener(listener, channel_name, msg): the listener's task after it
\* ran; an exception of the listener is logged there
CallListener(how) == IF how = "hangs" THEN "pending" ELSE "done"

\* a fan-out that calls the listeners one after the other, unguarded
RouteInTurn(ls, how) ==
    LET first == IF "s1" \in ls THEN "s1" ELSE "s2"
        stops == first \in ls /\ how[first] = "raises"
        called == IF stops THEN {first} ELSE ls
    IN [called |-> called,
        pending |-> {l \in called : how[l] = "hangs"},
        error |-> \E l \in called : how[l] = "raises"]

\* a fan-out that does not wait for the tasks of the listeners
RouteWithoutGather(ls, how) ==
    [called |-> RouteToListeners(ls), pending |-> {}, error |-> FALSE]

\* _route_to_listeners(channel_name, msg): a task per listener, then
\* gather(*tasks, return_exceptions=True); how[l] is what listener l does
Route(ls, how) ==
    [called |-> RouteToListeners(ls),
     pending |-> {l \in RouteToListeners(ls) : CallListener(how[l]) = "pending"},
     error |-> FALSE]

\* a caller registers a callback it has not registered
Subscribe ==
    /\ \E l \in Subscribers, kw \in Requests :
        /\ wanted[l] = None
        /\ listeners' = AddListenerCall(listeners, l, kw).ls
        /\ wanted' = [wanted EXCEPT ![l] = kw]
    /\ step' = NoStep
    /\ UNCHANGED <<supervisorVars, requestVars, cacheVars, histVars, flagVars, queueVars, chanVars, statusVars,
                   now, calls, inflight, arrived, taken, round>>

\* remove_listener(callback)
Unsubscribe ==
    /\ \E l \in Subscribers :
        /\ wanted[l] # None
        /\ listeners' = listeners \ {l}
        /\ wanted' = [wanted EXCEPT ![l] = None]
    /\ step' = NoStep
    /\ UNCHANGED <<supervisorVars, requestVars, cacheVars, histVars, flagVars, queueVars, chanVars, statusVars,
                   now, calls, inflight, arrived, taken, round>>

\* the kernel puts a message on the socket of a channel
Arrive(ch) ==
    /\ channels = "open"
    /\ arrived[ch] < MaxArrivals
    /\ arrived' = [arrived EXCEPT ![ch] = @ + 1]
    /\ step' = NoStep
    /\ UNCHANGED <<supervisorVars, requestVars, cacheVars, histVars, flagVars, queueVars, chanVars, statusVars,
                   listeners, now, calls, inflight, taken, round, wanted>>

\* _monitor_channel_messages: msg_ready, recv_multipart, the status update,
\* and _route_to_listeners up to its await of the gathered tasks
MonitorReceive(ch) ==
    /\ tracked \/ orphaned
    /\ channels = "open"
    /\ LoopIdle
    /\ inflight[ch] = {}
    /\ taken[ch] < arrived[ch]
    /\ \E msg \in DispatchMessages(ch), how \in [listeners -> Hows] :
        LET st == UpdateExecutionStateFromStatus(ClientState, ch, msg, now)
            r == Route(listeners, how)
            n == taken[ch] + 1
        IN /\ by_msg_id' = st.m
           /\ by_cell_id' = st.c
           /\ execution_state' = st.execution_state
           /\ last_activity' = st.last_activity
           /\ last_shell_status_time' = st.last_shell_status_time
           /\ last_control_status_time' = st.last_control_status_time
           /\ taken' = [taken EXCEPT ![ch] = n]
           /\ inflight' = [inflight EXCEPT ![ch] = r.pending]
           /\ round' = [round EXCEPT ![ch] =
                  [n |-> n, pair |-> <<msg.msg_type, ch>>, ls |-> listeners,
                   asked |-> wanted, called |-> r.called,
                   raised |-> {l \in listeners : how[l] = "raises"},
                   hung |-> {l \in listeners : how[l] = "hangs"},
                   error |-> r.error]]
           /\ step' = <<Origin(ch, msg), r.called>>
    /\ UNCHANGED <<supervisorVars, requestVars, histVars, flagVars, queueVars, chanVars, listeners,
                   now, calls, arrived, wanted>>

\* a listener that did not return does; when it was the last one the gather
\* of its round returns and the loop goes on
ListenerReturns(ch) ==
    /\ \E l \in inflight[ch] :
        inflight' = [inflight EXCEPT ![ch] = @ \ {l}]
    /\ step' = NoStep
    /\ UNCHANGED <<supervisorVars, requestVars, cacheVars, histVars, flagVars, queueVars, chanVars, statusVars,
                   listeners, now, calls, arrived, taken, round, wanted>>

\* a loop that leaves at the first error
MonitorFailsAndLeaves(ch) ==
    /\ tracked \/ orphaned
    /\ channels = "open"
    /\ LoopIdle
    /\ inflight[ch] = {}
    /\ \E at \in {"receive", "decode", "route"}, msg \in DispatchMessages(ch) :
        LET st == IF at = "route"
                  THEN UpdateExecutionStateFromStatus(ClientState, ch, msg, now)
                  ELSE ClientState
        IN /\ at # "receive" => taken[ch] < arrived[ch]
           /\ taken' = [taken EXCEPT ![ch] = IF at = "receive" THEN @ ELSE @ + 1]
           /\ by_msg_id' = st.m
           /\ by_cell_id' = st.c
           /\ execution_state' = st.execution_state
           /\ last_activity' = st.last_activity
           /\ last_shell_status_time' = st.last_shell_status_time
           /\ last_control_status_time' = st.last_control_status_time
    /\ step' = <<"failed", {}>>
    /\ channels' = channels
    /\ tracked' = FALSE
    /\ orphaned' = FALSE
    /\ UNCHANGED <<supervisorVars, requestVars, histVars, flagVars, queueVars,  listeners,
                   now, calls, arrived, inflight, round, wanted>>

\* one round of _monitor_channel_messages in which msg_ready or
\* recv_multipart raises, or the message cannot be decoded, or the routing
\* raises after the status update: the error is logged and the loop goes on
MonitorFails(ch) ==
    /\ tracked \/ orphaned
    /\ channels = "open"
    /\ LoopIdle
    /\ inflight[ch] = {}
    /\ \E at \in {"receive", "decode", "route"}, msg \in DispatchMessages(ch) :
        LET st == IF at = "route"
                  THEN UpdateExecutionStateFromStatus(ClientState, ch, msg, now)
                  ELSE ClientState
        IN /\ at # "receive" => taken[ch] < arrived[ch]
           /\ taken' = [taken EXCEPT ![ch] = IF at = "receive" THEN @ ELSE @ + 1]
           /\ by_msg_id' = st.m
           /\ by_cell_id' = st.c
           /\ execution_state' = st.execution_state
           /\ last_activity' = st.last_activity
           /\ last_shell_status_time' = st.last_shell_status_time
           /\ last_control_status_time' = st.last_control_status_time
    /\ step' = <<"failed", {}>>
    /\ UNCHANGED <<supervisorVars, requestVars, histVars, flagVars, queueVars, chanVars, listeners,
                   now, calls, arrived, inflight, round, wanted>>

NextDispatch ==
    \/ ConnectBegin("a")
    \/ HbPoll("a")
    \/ TestSend("a")
    \/ TestCheck("a")
    \/ ProcessQueued
    \/ Subscribe
    \/ Unsubscribe
    \/ \E ch \in MonitoredChannels : Arrive(ch)
    \/ \E ch \in MonitoredChannels : MonitorReceive(ch)
    \/ \E ch \in MonitoredChannels : ListenerReturns(ch)

SpecDispatch == Init /\ [][NextDispatch]_vars

(***************************************************************************)
(* The same fan-out with rounds of the monitor loop that fail.             *)
(***************************************************************************)
NextMonitor ==
    \/ ConnectBegin("a")
    \/ HbPoll("a")
    \/ TestSend("a")
    \/ TestCheck("a")
    \/ ProcessQueued
    \/ Subscribe
    \/ \E ch \in MonitoredChannels : Arrive(ch)
    \/ \E ch \in MonitoredChannels : MonitorReceive(ch)
    \/ \E ch \in MonitoredChannels : MonitorFails(ch)
    \/ \E ch \in MonitoredChannels : ListenerReturns(ch)

SpecMonitor == Init /\ [][NextMonitor]_vars

(***************************************************************************)
(* The kernel manager's wrapped methods, called by the server: a step is   *)
(* what runs between two awaits; a method that is not a coroutine runs     *)
(* from its call to its end with nothing in between.                       *)
(***************************************************************************)
\* the wrapper up to the call of the method: lifecycle_state = start_state
OpBegin(ops, hows) ==
    /\ \A op \in Ops : running[op] # "sync"
    /\ \E op \in ops, how \in hows :
        /\ running[op] = "no"
        /\ lifecycle_state' = Transitions[op][1]
        /\ running' = [running EXCEPT ![op] = how]
        /\ transition' = [began |-> op, prior |-> lifecycle_state, ended |-> None,
                          how |-> how, outcome |-> [kind |-> None, exc |-> None],
                          raised |-> None]
    /\ UNCHANGED <<cacheVars, histVars, clientVars, dispatchVars, requestVars, clients, created,
                   waiter, made, connects>>

\* KernelManager._async_post_start_kernel, which start_kernel awaits after
\* the launch: load_connection_info and kernel_client.connect()
PostStartKernel ==
    /\ running["start_kernel"] = "async"
    /\ running' = [running EXCEPT !["start_kernel"] = "post"]
    /\ connects' = <<"kernel_manager", lifecycle_state>>
    /\ UNCHANGED <<cacheVars, histVars, clientVars, dispatchVars, requestVars, lifecycle_state,
                   transition, clients, created, waiter, made>>

\* the method ends and the wrapper with it
OpEnd ==
    /\ \E op \in Ops :
        /\ running[op] # "no"
        /\ \E outcome \in Outcomes(running[op]) :
            LET r == StateTransition(lifecycle_state, Transitions[op][2], outcome)
            IN /\ lifecycle_state' = r.state
               /\ transition' = [began |-> None, prior |-> None, ended |-> op,
                                 how |-> running[op], outcome |-> outcome,
                                 raised |-> r.raised]
        /\ running' = [running EXCEPT ![op] = "no"]
    /\ UNCHANGED <<cacheVars, histVars, clientVars, dispatchVars, requestVars, clients, created,
                   waiter, made, connects>>

NextLifecycle ==
    \/ OpBegin(Ops, {"sync", "async"})
    \/ PostStartKernel
    \/ OpEnd

SpecLifecycle == Init /\ [][NextLifecycle]_vars

(***************************************************************************)
(* start_kernel of the kernel manager with the client it made for itself:  *)
(* the client variables describe KernelManager.kernel_client, caller "a"   *)
(* of connect() is _async_post_start_kernel and caller "b" another user    *)
(* of the same client.                                                     *)
(***************************************************************************)
\* a post-start step that does not look at what connect() returned
AsyncPostStartKernelUnchecked(success) == [kind |-> "returns", exc |-> None]

\* _async_post_start_kernel once connect() has returned success
AsyncPostStartKernel(success) ==
    IF success = "True" THEN [kind |-> "returns", exc |-> None]
    ELSE [kind |-> "raises", exc |-> "RuntimeError"]

\* _async_post_start_kernel up to the first await of connect():
\* load_connection_info, which may raise, and connect() on kernel_client
PostStartConnect ==
    /\ running["start_kernel"] = "async"
    /\ connects' = <<"kernel_manager", lifecycle_state>>
    /\ \E loaded \in BOOLEAN :
        IF loaded
        THEN /\ Connect("a")
             /\ running' = [running EXCEPT !["start_kernel"] = "post"]
             /\ UNCHANGED <<lifecycle_state, transition>>
        ELSE LET outcome == [kind |-> "raises", exc |-> "OSError"]
                 r == StateTransition(lifecycle_state,
                                      Transitions["start_kernel"][2], outcome)
             IN /\ lifecycle_state' = r.state
                /\ transition' = [began |-> None, prior |-> None,
                                  ended |-> "start_kernel", how |-> "async",
                                  outcome |-> outcome, raised |-> r.raised]
                /\ running' = [running EXCEPT !["start_kernel"] = "no"]
                /\ UNCHANGED <<cacheVars, histVars, clientVars>>
    /\ UNCHANGED <<dispatchVars, requestVars, clients, created, waiter, made>>

\* connect() has returned to _async_post_start_kernel: the rest of it, and
\* of the async_wrapper around start_kernel
PostStartEnd ==
    /\ running["start_kernel"] = "post"
    /\ calls["a"].pc = "done"
    /\ LET outcome == AsyncPostStartKernel(calls["a"].res)
           r == StateTransition(lifecycle_state, Transitions["start_kernel"][2],
                                outcome)
       IN /\ lifecycle_state' = r.state
          /\ transition' = [began |-> None, prior |-> None, ended |-> "start_kernel",
                            how |-> "post", outcome |-> outcome,
                            raised |-> r.raised]
    /\ running' = [running EXCEPT !["start_kernel"] = "no"]
    /\ UNCHANGED <<cacheVars, histVars, clientVars, dispatchVars, requestVars, clients,
                   created, waiter, made, connects>>

\* KernelManager.cleanup_resources(restart), which the shutdown of the
\* kernel calls, also the one inside a restart: stop_listening and
\* stop_channels on kernel_client, after clearing its cache and status
\* times when restarting; the flags of the client are not touched
CleanupResources ==
    /\ \E restart \in BOOLEAN :
        LET r == IF restart THEN Clear(by_msg_id, by_cell_id)
                 ELSE [m |-> by_msg_id, c |-> by_cell_id]
        IN /\ by_msg_id' = r.m
           /\ by_cell_id' = r.c
           /\ last_shell_status_time' = IF restart THEN NoTime ELSE last_shell_status_time
           /\ last_control_status_time' =
                  IF restart THEN NoTime ELSE last_control_status_time
    /\ tracked' = FALSE
    /\ orphaned' = orphaned
    /\ channels' = "closed"
    /\ step' = NoStep
    /\ UNCHANGED <<histVars, serviceVars, flagVars, queueVars, execution_state, last_activity,
                   listeners, now, calls>>

NextStart ==
    \/ OpBegin({"start_kernel"}, {"async"})
    \/ PostStartConnect
    \/ PostStartEnd
    \/ CleanupResources
    \/ OrphanEnds
    \/ ConnectBegin("b")
    \/ \E c \in Callers : HbPoll(c)
    \/ \E c \in Callers : TestSend(c)
    \/ \E c \in Callers : TestCheck(c)
    \/ \E c \in Callers : WaitWoken(c)
    \/ \E c \in Callers : WaitTimedOut(c)
    \/ ProcessQueued
    \/ MonitorChannelMessages({"iopub"} \X KernelInfoReplies)
    \/ Tick

SpecStart == Init /\ [][NextStart]_vars

(***************************************************************************)
(* KernelClientRegistry for one kernel id, while the kernel manager starts *)
(* the kernel: the kernel action events, the create_client calls of the    *)
(* websocket connections, and the coroutine of connect_client.  The client *)
(* variables describe the client the directory holds, or will hold next.   *)
(***************************************************************************)
\* connect_client at `await client.connect()`: load_connection_info and
\* connect() up to its first await, on the client the coroutine holds; a
\* client that was removed from the directory meanwhile is not followed
StartConnect(c, registered) ==
    /\ connects' = <<"registry", lifecycle_state>>
    /\ IF registered THEN Connect(c) ELSE UNCHANGED <<cacheVars, histVars, clientVars>>

\* create_client(kernel_id), called by a websocket connection
CreateClient ==
    /\ \E km \in BOOLEAN :
        LET r == CreateClientCall(clients, created, km)
        IN /\ r.created <= MaxClients
           /\ clients' = r.clients
           /\ created' = r.created
           /\ made' = [had |-> clients, before |-> created, returned |-> r.ret,
                       after |-> r.created]
    /\ UNCHANGED <<cacheVars, histVars, clientVars, dispatchVars, requestVars, lifecycle_state,
                   running, transition, waiter, connects>>

\* _handle_kernel_action_event with action "start": create_client, then
\* connect_client up to its first suspension; one connect_client coroutine
\* waits for the kernel at a time
StartEvent ==
    /\ waiter.pc = "idle"
    /\ \E km \in BOOLEAN, beating \in BOOLEAN :
        LET r == CreateClientCall(clients, created, km)
        IN /\ r.created <= MaxClients
           /\ clients' = r.clients
           /\ created' = r.created
           /\ made' = [had |-> clients, before |-> created, returned |-> r.ret,
                       after |-> r.created]
           /\ IF r.ret = 0 \/ connecting \/ (connection_ready /\ beating) \/ ~km
                 \/ lifecycle_state = "dead"
              THEN \* no client; or connecting or connected already: the result
                   \* is is_connected() or that of wait_for_connection_ready();
                   \* or no kernel manager, or the kernel is dead: False
                   UNCHANGED <<cacheVars, histVars, clientVars, waiter, connects>>
              ELSE IF lifecycle_state = "started"
              THEN StartConnect("a", TRUE) /\ UNCHANGED waiter
              ELSE /\ waiter' = [pc |-> "wait", client |-> r.ret, polls |-> 1,
                                 res |-> None]
                   /\ UNCHANGED <<cacheVars, histVars, clientVars, connects>>
    /\ UNCHANGED <<dispatchVars, requestVars, lifecycle_state, running, transition>>

\* _wait_for_kernel_started after a sleep, and the rest of connect_client
\* when it returns; c is the caller of connect() that the coroutine is
WaitForKernelStarted(c) ==
    /\ waiter.pc = "wait"
    /\ IF waiter.polls >= MaxPolls \/ lifecycle_state = "dead"
       THEN \* the timeout, or a dead kernel: connect_client returns False
            /\ waiter' = [waiter EXCEPT !.pc = "idle", !.res = "False"]
            /\ UNCHANGED <<cacheVars, histVars, clientVars, connects>>
       ELSE IF lifecycle_state = "started"
       THEN /\ calls[c].pc \in {"idle", "done"}
            /\ waiter' = [waiter EXCEPT !.pc = "idle", !.res = "connect"]
            /\ StartConnect(c, waiter.client = clients)
       ELSE /\ waiter' = [waiter EXCEPT !.polls = @ + 1]
            /\ UNCHANGED <<cacheVars, histVars, clientVars, connects>>
    /\ UNCHANGED <<dispatchVars, requestVars, lifecycle_state, running, transition, clients, created,
                   made>>

\* _handle_kernel_action_event with action "restart"
RestartEvent ==
    /\ IF clients # 0
       THEN LET r == Clear(by_msg_id, by_cell_id)
            IN /\ by_msg_id' = r.m
               /\ by_cell_id' = r.c
               /\ last_shell_status_time' = NoTime
               /\ last_control_status_time' = NoTime
               /\ step' = NoStep
               /\ UNCHANGED <<flagVars, queueVars, chanVars, execution_state,
                              last_activity, listeners, now, calls>>
       ELSE UNCHANGED <<cacheVars, clientVars>>
    /\ UNCHANGED <<histVars, serviceVars>>

\* _handle_kernel_action_event with action "shutdown" or "interrupt":
\* remove_client, that is disconnect_client and clients.pop.  The client
\* the next create_client makes is a new object; its cache's _by_msg_id is
\* the default value of the trait, which traitlets (not part of this
\* repository) either shares between the caches or makes anew
RemoveEvent ==
    /\ IF clients # 0
       THEN /\ clients' = 0
            /\ connecting' = FALSE /\ connection_ready' = FALSE /\ ready_event' = FALSE
            /\ queued_messages' = << >> /\ drain_scheduled' = 0
            /\ channels' = "closed" /\ tracked' = FALSE /\ orphaned' = FALSE
            /\ listeners' = {}
            /\ execution_state' = "unknown" /\ last_activity' = NoTime
            /\ last_shell_status_time' = NoTime /\ last_control_status_time' = NoTime
            /\ calls' = [c \in Callers |-> IdleCall]
            /\ arrivals' = 0 /\ wire' = << >>
            /\ step' = NoStep
            /\ UNCHANGED now
            /\ by_msg_id' \in {<< >>, by_msg_id}
            /\ by_cell_id' = EmptyDict
       ELSE UNCHANGED <<cacheVars, clientVars, clients>>
    /\ UNCHANGED <<histVars, dispatchVars, requestVars, lifecycle_state, running, transition, created,
                   waiter, made, connects>>

NextRegistry ==
    \/ OpBegin({"start_kernel"}, {"async"})
    \/ PostStartKernel
    \/ OpEnd
    \/ CreateClient
    \/ StartEvent
    \/ WaitForKernelStarted("a")
    \/ RestartEvent
    \/ RemoveEvent
    \/ HbPoll("a")
    \/ TestSend("a")
    \/ TestCheck("a")
    \/ ProcessQueued
    \/ MonitorChannelMessages({"iopub"} \X KernelInfoReplies)

SpecRegistry == Init /\ [][NextRegistry]_vars

(***************************************************************************)
(* The restart events of a kernel whose client is in service: requests     *)
(* pass through it, it has listeners, the kernel answers.                  *)
(***************************************************************************)
\* KernelClientWebsocketConnection.handle_incoming_message(incoming_msg) of
\* a connection whose connect() has looked the client up or made it: the
\* message goes to the client the directory holds, if it holds one
ConnectionHandleIncomingMessage(names, cells) ==
    /\ created > 0
    /\ IF clients # 0
       THEN HandleIncomingMessage(names, cells)
       ELSE /\ arrivals < NumMsgIds
            /\ arrivals' = arrivals + 1
            /\ step' = <<"lost", {}>>
            /\ UNCHANGED <<cacheVars, histVars, serviceVars, flagVars, queued_messages,
                           drain_scheduled, wire, chanVars, statusVars, listeners, now,
                           calls>>

NextRestart ==
    \/ CreateClient
    \/ RestartEvent
    \/ clients # 0 /\ ConnectBegin("a")
    \/ HbPoll("a")
    \/ TestSend("a")
    \/ TestCheck("a")
    \/ ProcessQueued
    \/ clients # 0 /\ HandleIncomingMessage({"shell"}, CellIds)
    \/ MonitorChannelMessages({"iopub"} \X KernelInfoReplies)
    \/ clients # 0 /\ AddListener

SpecRestart == Init /\ [][NextRestart]_vars

(***************************************************************************)
(* The websocket connections of a kernel whose client the shutdown and     *)
(* interrupt events remove from the directory.                             *)
(***************************************************************************)
NextConnection ==
    \/ CreateClient
    \/ RemoveEvent
    \/ ConnectionHandleIncomingMessage({"shell"}, {None})
    \/ clients # 0 /\ ConnectBegin("a")
    \/ HbPoll("a")
    \/ TestSend("a")
    \/ TestCheck("a")
    \/ ProcessQueued
    \/ MonitorChannelMessages({"iopub"} \X KernelInfoReplies)

SpecConnection == Init /\ [][NextConnection]_vars

(***************************************************************************)
(* Claims about the cache.                                                 *)
(***************************************************************************)
Entries == {by_msg_id[i].val : i \in 1..Len(by_msg_id)}

HasCell(e) == e.cell_id # None /\ e.cell_id # Absent

\* C1: every entry that was put and has not been evicted or removed since is
\* what get(msg_id=its message id) returns and, when it carries a cell id,
\* what get(cell_id=its cell id) returns.
C1_PutThenGet ==
    \A e \in Entries :
        /\ Get(by_msg_id, by_cell_id, e.msg_id, None).out = e
        /\ HasCell(e) => Get(by_msg_id, by_cell_id, None, e.cell_id).out = e

\* the cached message ids are the n most recently accessed of the inserted ones
MostRecent(n) ==
    KeySeq(by_msg_id) = SubSeq(scen.hist, Len(scen.hist) - n + 1, Len(scen.hist))

\* C2 as stated: the cache never holds more than maxsize entries, and once
\* more than maxsize entries with distinct message ids were inserted it holds
\* exactly maxsize, the least recently accessed ones being the absent ones.
C2_InsertsLeaveMaxsize ==
    /\ Len(by_msg_id) <= maxsize
    /\ (scen.fresh /\ Len(scen.hist) > maxsize)
          => (Len(by_msg_id) = maxsize /\ MostRecent(maxsize))

\* C2 as amended: the same, for inserts none of which replaced the entry
\* that held its cell id.
C2_InsertsWithoutReplacementLeaveMaxsize ==
    /\ Len(by_msg_id) <= maxsize
    /\ (scen.fresh /\ ~scen.collided /\ Len(scen.hist) > maxsize)
          => (Len(by_msg_id) = maxsize /\ MostRecent(maxsize))

\* C2 witness: more than maxsize distinct inserts, the last one evicting an
\* entry, with a read in between that changed the order.
C2_Witness ==
    /\ scen.fresh /\ ~scen.collided
    /\ Len(scen.hist) > maxsize
    /\ last.op \in Puts /\ last.evicted # NoId
    /\ \E i \in 1..Len(scen.hist) : scen.hist[i] = "m1" /\ i > 1

\* C3: at most one cached entry carries a given cell id (a put whose cell id
\* is mapped to another message id removes that message id's entry, whatever
\* the channels).
C3_OneEntryPerCellId ==
    \A i, j \in 1..Len(by_msg_id) :
        (i # j /\ HasCell(by_msg_id[i].val))
            => by_msg_id[i].val.cell_id # by_msg_id[j].val.cell_id

Unchanged(r) == r.m = by_msg_id /\ r.c = by_cell_id

\* C5 as stated: a put that lacks the message id or the channel, or whose
\* message id differs from the key, ends with the validation error of that
\* check (and, C5_RejectedPutChangesNothing, changes nothing).
C5_RejectedPutRaisesValidationError ==
    /\ last.bad = "msg_id" => last.res = "MissingKeyException:msg_id"
    /\ last.bad = "channel" => last.res = "MissingKeyException:channel"
    /\ last.bad = "key" => last.res = "InvalidKeyException"

\* C5 as amended: in every reachable state, cache[k] = v fails with the
\* validation error of the first check v fails, add(v) fails with KeyError
\* when v lacks the message id and with MissingKeyException when it lacks the
\* channel, and both leave _by_msg_id and _by_cell_id, order included, as
\* they were.
C5_RejectedPutChangesNothing ==
    /\ \A kv \in SetItemInputs :
          LET r == SetItem(by_msg_id, by_cell_id, kv[1], kv[2])
              bad == Bad(kv[1], kv[2])
          IN /\ bad = "msg_id" => (r.res = "MissingKeyException:msg_id" /\ Unchanged(r))
             /\ bad = "channel" => (r.res = "MissingKeyException:channel" /\ Unchanged(r))
             /\ bad = "key" => (r.res = "InvalidKeyException" /\ Unchanged(r))
    /\ \A v \in AddInputs :
          LET r == Add(by_msg_id, by_cell_id, v)
              bad == Bad(v.msg_id, v)
          IN /\ bad = "msg_id" => (r.res = "KeyError:msg_id" /\ Unchanged(r))
             /\ bad = "channel" => (r.res = "MissingKeyException:channel" /\ Unchanged(r))

\* C5 witness: a rejected add on a cache that is full and has a cell id mapped.
C5_Witness ==
    /\ last.op = "add" /\ last.bad = "channel"
    /\ last.res = "MissingKeyException:channel"
    /\ Len(by_msg_id) = maxsize
    /\ DOMAIN by_cell_id # {}


\* C4: a read (get by message id or by cell id, or cache[msg_id]) moves the
\* entry to the most recently used end, and when a later put overflows and
\* evicts an entry that was read, no entry that has been neither read nor
\* written since that read is still cached.
C4_ReadPostponesEviction ==
    /\ \A a \in KeyArgs :
          LET r == Get(by_msg_id, by_cell_id, a[1], a[2])
          IN r.out # NoEntry => r.m[Len(r.m)].key = r.out.msg_id
    /\ \A k \in MsgIds :
          LET r == GetItem(by_msg_id, by_cell_id, k)
          IN r.res = "ok" => r.m[Len(r.m)].key = k
    /\ \A v \in LruValues :
          LET r == Add(by_msg_id, by_cell_id, v)
          IN \A p \in older : p[2] = r.evicted => p[1] \notin Keys(r.m)

\* C4 witness: an overflow evicted an entry and spared an entry that had been
\* read while the evicted one was cached.
C4_Witness ==
    /\ last.op = "add" /\ last.evicted # NoId
    /\ last.spared # {}
    /\ last.spared \subseteq Keys(by_msg_id)

(***************************************************************************)
(* Claims about the client.                                                *)
(***************************************************************************)
MsgIndex(id) == CHOOSE i \in 1..Len(MsgNames) : MsgNames[i] = id

\* the message ids of s are in the order in which the messages arrived
InArrivalOrder(s) ==
    \A i, j \in 1..Len(s) : i < j => MsgIndex(s[i]) < MsgIndex(s[j])

QueuedIds == [i \in 1..Len(queued_messages) |-> queued_messages[i][2]]

DrainedIds ==
    LET d == SelectSeq(wire, LAMBDA e : e.via # "direct")
    IN [i \in 1..Len(d) |-> d[i].id]

\* C6: the messages that arrive while the connection is not ready are kept
\* in arrival order and are not transmitted; they are transmitted, in that
\* order, once readiness was signalled: no queued message goes to
\* _send_message while the flag is false, and each one that goes there goes
\* out.
C6_QueuedUntilReadyThenSentInOrder ==
    /\ InArrivalOrder(QueuedIds)
    /\ InArrivalOrder(DrainedIds)
    /\ \A i \in 1..Len(wire) : wire[i].via # "stale"
    /\ \A i \in 1..Len(wire) : wire[i].via = "queue" => wire[i].ok

\* C7: the queue never holds more than max_queue_size messages; a message
\* that arrives while it is full takes the place of the oldest one, at the
\* end, and otherwise it is appended.
C7_QueueBoundedDropsOldest ==
    /\ Len(queued_messages) <= max_queue_size
    /\ \A msg \in ClientChannels \X MsgIds :
          LET r == QueueMessageIfNotReady(FALSE, queued_messages, msg)
          IN /\ r.queued
             /\ Len(queued_messages) >= max_queue_size
                   => r.q = Append(Tail(queued_messages), msg)
             /\ Len(queued_messages) < max_queue_size
                   => r.q = Append(queued_messages, msg)

\* C7 witness: a message arrived while the queue was full and the oldest one
\* was dropped.
C7_Witness ==
    /\ step[1] = "dropped"
    /\ Len(queued_messages) = max_queue_size
    /\ ~connection_ready

\* C8: a connect() that found another connect() in progress returns what
\* that attempt returns.
C8_WaitingCallReturnsSameOutcome ==
    \A w \in Callers, o \in Callers :
        (calls[w].pc = "done" /\ calls[w].joined = o /\ calls[o].pc = "done")
            => calls[w].res = calls[o].res

\* the status messages the broadcast channel can carry
AnyStatus ==
    [msg_type : {"status"},
     parent : MsgIds \cup {"ks", "kc", "unknown", None},
     execution_state : {"busy", "idle", "starting"}]

Times == 0..MaxTime

\* C9: a status message on the broadcast channel whose parent is not in the
\* cache changes neither the execution state nor the last status times (nor
\* last_activity), whenever it arrives, and after the step that received
\* one every registered listener was called with it.
C9_UncachedParentStatusIgnored ==
    /\ \A msg \in AnyStatus, t \in Times :
          Origin("iopub", msg) = "uncached" =>
              LET st == UpdateExecutionStateFromStatus(ClientState, "iopub", msg, t)
              IN /\ st.execution_state = execution_state
                 /\ st.last_shell_status_time = last_shell_status_time
                 /\ st.last_control_status_time = last_control_status_time
                 /\ st.last_activity = last_activity
    /\ step[1] = "uncached" => step[2] = listeners

\* C9 witness: a status message with a parent the cache does not hold was
\* received and routed to a listener, the cache holding other requests.
C9_Witness ==
    /\ step[1] = "uncached"
    /\ step[2] # {}
    /\ Len(by_msg_id) > 0
    /\ execution_state = "busy"

\* C10: a status message whose parent is cached with the control channel
\* leaves the execution state (and the shell status time and last_activity)
\* as it was and sets the control status time; the execution state changes
\* only for a parent cached with the shell channel.
C10_OnlyShellOriginSetsExecutionState ==
    \A msg \in AnyStatus, t \in Times :
        LET st == UpdateExecutionStateFromStatus(ClientState, "iopub", msg, t)
        IN /\ Origin("iopub", msg) = "control" =>
                  /\ st.execution_state = execution_state
                  /\ st.last_control_status_time = t
                  /\ st.last_shell_status_time = last_shell_status_time
                  /\ st.last_activity = last_activity
           /\ st.execution_state # execution_state => Origin("iopub", msg) = "shell"

\* C10 witness: a status message of a control request was received while
\* the kernel was busy, and the control status time is set.
C10_Witness ==
    /\ step[1] = "control"
    /\ last_control_status_time # NoTime
    /\ execution_state = "busy"

(***************************************************************************)
(* Claims about the fan-out.                                               *)
(***************************************************************************)
\* the message of the last round of ch reached listener l
Reached(l, ch) == l \in round[ch].called

\* C11: when a message is routed to several listeners and one of them
\* raises, every listener registered at that time is called with the
\* message, no exception leaves _route_to_listeners, and the round waits for
\* no listener that returned or raised.
C11_RaisingListenerStopsNobody ==
    \A ch \in MonitoredChannels :
        round[ch].n > 0 =>
            /\ \A l \in round[ch].ls : Reached(l, ch)
            /\ ~round[ch].error
            /\ inflight[ch] \subseteq round[ch].hung

\* C11 witness: a round with two listeners, one raising and one returning,
\* both called, the round over.
C11_Witness ==
    \E ch \in MonitoredChannels :
        /\ round[ch].n > 0
        /\ round[ch].ls = Subscribers
        /\ Cardinality(round[ch].raised) = 1
        /\ round[ch].hung = {}
        /\ \A l \in Subscribers : Reached(l, ch)
        /\ inflight[ch] = {}

\* C12: a listener that is slow or never finishes blocks nobody: the other
\* listeners get the message of that round, and no later message of the
\* channel waits on the socket for a listener that has not returned while
\* other listeners are registered.
C12_SlowListenerBlocksNobody ==
    \A ch \in MonitoredChannels :
        /\ round[ch].n > 0 => \A l \in round[ch].ls : Reached(l, ch)
        /\ (taken[ch] < arrived[ch] /\ inflight[ch] # {})
              => listeners \ inflight[ch] = {}

\* the pair the callers' filters name
FilterPair == <<"status", "iopub">>

\* whether a subscription asked for with kw admits the pair
Admits(kw, pair) ==
    \/ kw = "none"
    \/ kw = "msg_types" /\ pair = FilterPair
    \/ kw = "exclude_msg_types" /\ pair # FilterPair

\* C13: a round delivers the message to a subscriber if and only if its
\* (message type, channel) pair passes the filter the subscriber registered
\* with: an inclusion filter admits the listed pairs, an exclusion filter the
\* others, no filter admits all.
C13_DeliveredIffFilterAdmits ==
    \A ch \in MonitoredChannels, l \in Subscribers :
        (round[ch].n > 0 /\ round[ch].asked[l] # None)
            => (Reached(l, ch) <=> Admits(round[ch].asked[l], round[ch].pair))

(***************************************************************************)
(* Claims about connecting and disconnecting.                              *)
(***************************************************************************)
\* C16: disconnect(), whatever the client is doing (idle, connecting,
\* ready), leaves the set of listeners as it was, and when it returns
\* neither the connection-ready flag nor the connecting flag is set
C16_DisconnectKeepsListenersClearsFlags ==
    [][Disconnect => /\ listeners' = listeners
                     /\ ~connecting'
                     /\ ~connection_ready']_vars

\* a ready client with a listener was disconnected
C16_Witness ==
    /\ listeners # {}
    /\ calls["a"] = Done("True", None)
    /\ channels = "closed"
    /\ ~connection_ready
    /\ ~connecting

\* C20: the connection-ready flag is set only by a connect() attempt that
\* opened the channels, then saw the heartbeat beating, then had its
\* communication test succeed; an attempt that gives up on the heartbeat or
\* whose test times out does not set it
C20_ReadyOnlyAfterVerifiedAttempt ==
    [][/\ (~connection_ready /\ connection_ready') =>
            \E c \in Callers : /\ calls[c].pc \in {"sleep", "test"}
                               /\ calls'[c] = Done("True", None)
       /\ \A c \in Callers :
            /\ (calls[c].pc \in {"idle", "done"} /\ InAttempt(c)') => channels' = "open"
            /\ (calls[c].pc # "sleep" /\ calls'[c].pc = "sleep") =>
                    calls[c].pc \in {"idle", "done", "hb"}
            /\ (calls[c].pc # "test" /\ calls'[c].pc = "test") => calls[c].pc = "sleep"
            /\ (InAttempt(c) /\ calls'[c].pc = "done" /\ calls'[c].res = "False") =>
                    connection_ready' = connection_ready]_vars

\* an attempt went through and set the flag
C20_Witness ==
    /\ connection_ready
    /\ channels = "open"
    /\ \E c \in Callers : calls[c] = Done("True", None) /\ calls[c].joined = None

(***************************************************************************)
(* Claims about the lifecycle state of the kernel manager.                 *)
(***************************************************************************)
\* C14: when the wrapped start, restart or shutdown fails (it raises an
\* Exception), the lifecycle state is unknown when the wrapper is left, not
\* the transitional state and not the end state, and the wrapper raises the
\* exception the method raised; so for the coroutine and for the plain one
C14_FailureLeavesUnknownAndReraises ==
    (transition.ended # None /\ transition.outcome.kind = "raises") =>
        /\ lifecycle_state = "unknown"
        /\ transition.raised = transition.outcome.exc

\* a plain restart_kernel raised
C14_Witness ==
    /\ transition.ended = "restart_kernel"
    /\ transition.how = "sync"
    /\ transition.outcome.kind = "raises"
    /\ transition.raised = "OSError"

\* the states the three operations go through
During == [start_kernel |-> "starting", restart_kernel |-> "restarting",
           shutdown_kernel |-> "terminating"]

After == [start_kernel |-> "started", restart_kernel |-> "started",
          shutdown_kernel |-> "dead"]

C17_CreateClientReturnsExisting ==
    /\ clients <= created
    /\ made.had # 0 => (made.returned = made.had /\ made.after = made.before)

\* the second client of the kernel id was asked for again
C17_Witness ==
    /\ made.had = 2
    /\ made.returned = 2
    /\ clients = 2
    /\ created = 2

\* C18: the restart event of a kernel that has a client empties the
\* client's cache, by message id and by cell id, and resets both
\* last-status times; the execution state, the connection-ready flag and the
\* listeners stay as they were
C18_RestartClearsCacheAndTimesOnly ==
    [][(RestartEvent /\ clients # 0) =>
          /\ by_msg_id' = << >>
          /\ by_cell_id' = EmptyDict
          /\ last_shell_status_time' = NoTime
          /\ last_control_status_time' = NoTime
          /\ execution_state' = execution_state
          /\ connection_ready' = connection_ready
          /\ listeners' = listeners]_vars

\* a ready client with a listener and requests in its cache was restarted
C18_Witness ==
    /\ clients # 0
    /\ arrivals > 0
    /\ by_msg_id = << >>
    /\ by_cell_id = EmptyDict
    /\ last_shell_status_time = NoTime
    /\ last_control_status_time = NoTime
    /\ connection_ready
    /\ execution_state = "idle"
    /\ listeners # {}

\* C19: every connect() of a client of the kernel is started while the
\* kernel manager's lifecycle state is started
C19_ConnectOnlyWhenStarted ==
    connects[1] # None => connects[2] = "started"

(***************************************************************************)
(* Claims about the cache: the order of use and the removals.              *)
(***************************************************************************)
\* C28: a put makes the written entry the most recently used one, both for
\* a new message id and for one that is cached already, so that (for
\* maxsize > 1) the entry just put is not the next one to be evicted
C28_PutMakesMostRecentlyUsed ==
    \A kv \in SetItemInputs :
        LET r == SetItem(by_msg_id, by_cell_id, kv[1], kv[2])
        IN r.res = "ok" =>
              /\ r.m[Len(r.m)].key = kv[1]
              /\ (maxsize > 1 /\ Len(r.m) > 1) => Head(r.m).key # kv[1]

\* the entry that remove or pop with these arguments takes out
Target(a) ==
    IF a[2] \in DOMAIN by_cell_id THEN by_cell_id[a[2]]
    ELSE IF Has(by_msg_id, a[1]) THEN Lookup(by_msg_id, a[1])
    ELSE NoEntry

\* e is the entry cached under its message id
Cached(e) == Has(by_msg_id, e.msg_id) /\ Lookup(by_msg_id, e.msg_id) = e

\* in the cache r, get finds nothing under either key of e, and when e was
\* the entry cached under its message id no index holds a key of e
Gone(e, r) ==
    /\ ~Contains(r.m, e.msg_id)
    /\ Get(r.m, r.c, e.msg_id, None).out = NoEntry
    /\ HasCell(e) => Get(r.m, r.c, None, e.cell_id).out = NoEntry
    /\ (Cached(e) /\ HasCell(e)) => e.cell_id \notin DOMAIN r.c

C23_EntryCachedBeforeTransmit ==
    /\ sent.id # None => sent.cached
    /\ \A call \in awaited : Contains(by_msg_id, call.id)

\* the channel of each operation according to the channel-role table
RoleChannel(name) ==
    IF name \in {"shutdown", "restart", "interrupt"} THEN "control"
    ELSE IF name = "input" THEN "stdin"
    ELSE "shell"

Alone(c) == \A d \in Callers \ {c} : ~InAttempt(d)

\* C24: when connect() returns False, whatever made the attempt fail, the
\* connecting flag is false, and a later connect() starts an attempt of its
\* own: it waits for readiness only while an attempt is in progress
C24_FailedConnectClearsConnecting ==
    [][\A c \in Callers :
          /\ (InAttempt(c) /\ Alone(c) /\ calls'[c].pc = "done"
                /\ calls'[c].res = "False") => ~connecting'
          /\ (calls[c].pc \in {"idle", "done"} /\ calls'[c].pc = "wait") =>
                \E d \in Callers : InAttempt(d)]_vars

\* C25: the heartbeat loop of connect() polls at most max_attempts times
\* after the first check; the poll after that one, when the heartbeat is
\* still not beating, makes connect() return False with the connecting flag
\* cleared and the connection-ready flag as it was
C25_HeartbeatPollsBounded ==
    [][\A c \in Callers :
          /\ calls'[c].attempt <= max_attempts
          /\ (calls[c].pc = "hb" /\ calls'[c].pc = "hb" /\ calls'[c] # calls[c]) =>
                calls'[c].attempt = calls[c].attempt + 1
          /\ (calls[c].pc = "hb" /\ calls'[c].pc = "done") =>
                /\ calls'[c].res = "False"
                /\ calls[c].attempt = max_attempts
                /\ ~connecting'
                /\ connection_ready' = connection_ready]_vars

\* a connect() gave up on the heartbeat: the channels are open, no flag is set
C25_Witness ==
    /\ calls["a"] = Done("False", None)
    /\ calls["b"] = IdleCall
    /\ channels = "open"
    /\ tracked
    /\ ~connecting
    /\ ~connection_ready

\* a status time t was recorded after since
After26(t, since) == t # NoTime /\ t > since

\* C26: _test_kernel_communication returns True only when the execution
\* state is idle or a status of a shell or control request was recorded
\* after the verification began; otherwise it goes on, sending the
\* kernel_info requests again once the retry interval has passed, until the
\* timeout has elapsed, and then it returns False and so does connect()
C26_VerificationNeedsIdleOrFreshStatus ==
    [][\A c \in Callers :
          LET since == calls[c].since
              verifying == calls[c].pc \in {"sleep", "test"}
              resend == calls[c].pc = "sleep" \/ now - calls[c].info >= RetryInterval
          IN /\ (verifying /\ calls'[c] = Done("True", None)) =>
                    \/ execution_state = "idle"
                    \/ After26(last_shell_status_time, since)
                    \/ After26(last_control_status_time, since)
             /\ (verifying /\ calls'[c].pc = "done" /\ calls'[c].res = "False") =>
                    /\ now - since >= TestTimeout
                    /\ connection_ready' = connection_ready
             /\ (verifying /\ calls'[c].pc = "test" /\ calls'[c] # calls[c]) =>
                    /\ now - since < TestTimeout
                    /\ execution_state # "idle"
                    /\ resend
                    /\ calls'[c].info = now
                    /\ Contains(by_msg_id', KernelInfoControl.msg_id)]_vars

\* a verification succeeded after the status of a shell request and, later,
\* the status of a control request were recorded
C26_Witness ==
    /\ connection_ready
    /\ calls["b"] = Done("True", None)
    /\ calls["b"].joined = None
    /\ last_shell_status_time # NoTime
    /\ last_control_status_time > last_shell_status_time

\* C27: a connect() that succeeds sets the execution state to idle only when
\* no status message changed it during the attempt: a state that the status
\* of a shell request set during the attempt, busy or idle, is left as it is
C27_ConnectKeepsStateSetByStatus ==
    [][\A c \in Callers :
          (/\ calls[c].pc \in {"sleep", "test"}
           /\ calls'[c] = Done("True", None)
           /\ \A d \in Callers \ {c} : calls[d].pc = "idle"
           /\ After26(last_shell_status_time, calls[c].since))
              => execution_state' = execution_state]_vars

C21_FailedConnectFailsStart ==
    /\ [][(/\ running["start_kernel"] = "post"
           /\ running'["start_kernel"] = "no"
           /\ calls["a"].res = "False") =>
              /\ transition'.ended = "start_kernel"
              /\ transition'.raised = "RuntimeError"
              /\ lifecycle_state' = "unknown"]_vars
    /\ []((transition.ended = "start_kernel" /\ transition.raised # None) =>
              lifecycle_state = "unknown")

\* a start_kernel whose connect() failed after the dialogue with the kernel
\* had begun has ended with RuntimeError
C21_Witness ==
    /\ transition.ended = "start_kernel"
    /\ transition.raised = "RuntimeError"
    /\ connects = <<"kernel_manager", "starting">>
    /\ calls["a"] = Done("False", None)
    /\ channels = "open"
    /\ lifecycle_state = "unknown"

(***************************************************************************)
(* Claims about the two indices of the cache taken together.               *)
(***************************************************************************)
\* C34: the two indices agree: every cell id of _by_cell_id maps to the
\* entry that _by_msg_id holds under that entry's message id, and every
\* entry of _by_msg_id that has a cell id is the one its cell id maps to
C34_IndicesAgree ==
    /\ \A cell \in DOMAIN by_cell_id :
          /\ Has(by_msg_id, by_cell_id[cell].msg_id)
          /\ Lookup(by_msg_id, by_cell_id[cell].msg_id) = by_cell_id[cell]
    /\ \A e \in Entries :
          HasCell(e) => /\ e.cell_id \in DOMAIN by_cell_id
                        /\ by_cell_id[e.cell_id] = e

(***************************************************************************)
(* Claims about the drain of the queue.                                    *)
(***************************************************************************)
\* C36: a message that handle_incoming_message sends because the ready
\* flag is set is never handed to _send_message ahead of a queued message
\* that arrived before it
C36_QueuedSentBeforeLater ==
    \A i, j \in 1..Len(wire) :
        (i < j /\ wire[i].via = "direct" /\ wire[j].via # "direct")
            => MsgIndex(wire[i].id) < MsgIndex(wire[j].id)

\* C38: every message that left the queue was transmitted, and only once:
\* none was handed to a channel that is stopped, no message id is on the
\* wire twice, and when the connection is ready and no drain is pending the
\* queue is empty
C38_QueuedTransmittedExactlyOnce ==
    /\ \A i \in 1..Len(wire) : wire[i].via # "direct" => wire[i].ok
    /\ \A i, j \in 1..Len(wire) : i # j => wire[i].id # wire[j].id
    /\ (connection_ready /\ drain_scheduled = 0) => queued_messages = << >>

(***************************************************************************)
(* Claims about operations of the kernel manager that overlap.             *)
(***************************************************************************)
\* C39: once a shutdown has ended and left the lifecycle state dead, the
\* state does not become started by the end of an operation that was called
\* before: from dead it changes to started only through the transitional
\* state of a start or restart called afterwards
C39_DeadNotOverwrittenByEarlierCall ==
    [][lifecycle_state = "dead" => lifecycle_state' # "started"]_vars

(***************************************************************************)
(* Claims about the monitor tasks.                                         *)
(***************************************************************************)
\* C37: the client never has two monitor tasks for a channel: no task that
\* _monitoring_tasks forgot runs next to the tasks of the list
C37_OneLoopPerChannel == ~(tracked /\ orphaned)

\* C32: between the return of disconnect() and the next connect() no
\* monitor task of an earlier connect() runs, in the list or out of it, and
\* no message is routed to the listeners
C32_DisconnectStopsEveryLoop ==
    /\ [](channels = "closed" => ~(tracked \/ orphaned))
    /\ [][(channels = "closed" /\ step' # step) =>
              step'[1] \notin {"other", "shell", "control", "uncached"}]_vars

\* C35: whenever the connection-ready flag is set the channels are open
\* and the monitor tasks of _monitoring_tasks run
C35_ReadyImpliesListening ==
    connection_ready => (channels = "open" /\ tracked)

(***************************************************************************)
(* Claims about the websocket connections.                                 *)
(***************************************************************************)
\* C33: a message that a websocket connection receives for the kernel is
\* never dropped because the directory holds no client for the kernel: it
\* is queued or handed to _send_message
C33_MessageWithoutClientKept ==
    [][arrivals' = arrivals + 1 =>
          \/ Len(wire') = Len(wire) + 1
          \/ queued_messages' # queued_messages]_vars

\* C31: a round of the monitor loop that fails drops at most the message
\* it read: nothing is routed in it, the monitor tasks and the channels are
\* as before, the loop waits for no listener, and a message that is on the
\* socket after the failure can be received and routed; the monitor tasks
\* end only in a step that closes the channels
C31_FailureDropsOneMessage ==
    /\ [][\A ch \in MonitoredChannels :
          MonitorFails(ch) =>
              /\ tracked' = tracked /\ orphaned' = orphaned
              /\ channels' = "open"
              /\ taken'[ch] \in {taken[ch], taken[ch] + 1}
              /\ arrived' = arrived
              /\ round' = round
              /\ inflight'[ch] = {}
              /\ listeners' = listeners]_vars
    /\ [](\A ch \in MonitoredChannels :
            (step[1] = "failed" /\ taken[ch] < arrived[ch]) => ENABLED MonitorReceive(ch))
    /\ [][(tracked /\ ~tracked') => channels' = "closed"]_vars

\* a round has just failed on the first message of the channel while the
\* second one is on the socket and both listeners are subscribed
C31_Witness ==
    \E ch \in MonitoredChannels :
        /\ step[1] = "failed"
        /\ taken[ch] = 1
        /\ arrived[ch] = 2
        /\ round[ch] = NoRound
        /\ listeners = Subscribers
        /\ tracked

\* C40: the caches of different clients are independent: what was put in
\* the cache of a client that has been removed is not in the cache of the
\* client made after it, which starts empty
C40_CachesIndependent ==
    [][(clients = 0 /\ clients' # 0) => by_msg_id' = << >>]_vars

====
